---- MODULE Spec2Model ----
(***************************************************************************)
(* A model of aardvark-dns: the name/address backend (src/backend/mod.rs), *)
(* the aggregation of per-network files into a backend snapshot            *)
(* (src/config/mod.rs) and the per-listener DNS engine                     *)
(* (src/dns/coredns.rs).                                                   *)
(*                                                                         *)
(* Strings are sequences of one-character strings, so that lowercasing,    *)
(* suffix stripping, splitting and joining are computed as the code does.  *)
(* An IP address is the tuple of its octets (IPv4, length 4) or of its     *)
(* 16-bit groups (IPv6, length 8).  A HashMap is a function whose DOMAIN   *)
(* is the key set; an Option is a record with the field `some`.            *)
(***************************************************************************)
EXTENDS Integers, Sequences, FiniteSets, TLC

(***************************************************************************)
(* Rust std: Option, str and Vec helpers                                   *)
(***************************************************************************)
None == [some |-> FALSE]

Some(x) == [some |-> TRUE, v |-> x]

EmptyMap == << >>

HasKey(m, k) == k \in DOMAIN m

Put(m, k, val) == [x \in (DOMAIN m) \cup {k} |-> IF x = k THEN val ELSE m[x]]

\* HashMap::entry(k).or_default() read back: the stored value or the empty Vec / map
GetOrEmpty(m, k) == IF k \in DOMAIN m THEN m[k] ELSE << >>

\* str::ends_with
EndsWith(s, suf) ==
    /\ Len(suf) <= Len(s)
    /\ SubSeq(s, Len(s) - Len(suf) + 1, Len(s)) = suf

\* str::contains
Contains(s, pat) ==
    \E i \in 1..(Len(s) - Len(pat) + 1) : SubSeq(s, i, i + Len(pat) - 1) = pat

\* String::truncate
Truncate(s, n) == SubSeq(s, 1, n)

\* str::strip_suffix(..) with the caller's fallback to the whole string
StripSuffix(s, suf) == IF EndsWith(s, suf) THEN Truncate(s, Len(s) - Len(suf)) ELSE s

RECURSIVE TrimEndMatches(_, _)
\* str::trim_end_matches: the suffix is removed repeatedly
TrimEndMatches(s, pat) ==
    IF Len(pat) > 0 /\ EndsWith(s, pat)
    THEN TrimEndMatches(Truncate(s, Len(s) - Len(pat)), pat)
    ELSE s

RECURSIVE SplitFrom(_, _, _, _)
SplitFrom(s, c, i, cur) ==
    IF i > Len(s) THEN <<cur>>
    ELSE IF s[i] = c THEN <<cur>> \o SplitFrom(s, c, i + 1, << >>)
    ELSE SplitFrom(s, c, i + 1, Append(cur, s[i]))

\* str::split(char): always at least one (possibly empty) piece
Split(s, c) == SplitFrom(s, c, 1, << >>)

RECURSIVE Join(_, _)
\* [&str]::join(sep)
Join(parts, sep) ==
    IF Len(parts) = 0 THEN << >>
    ELSE IF Len(parts) = 1 THEN parts[1]
    ELSE parts[1] \o sep \o Join(Tail(parts), sep)

\* Iterator::rev
Rev(s) == [i \in 1..Len(s) |-> s[Len(s) + 1 - i]]

RECURSIVE Concat(_)
\* Iterator<&str>::collect::<String>()
Concat(parts) == IF Len(parts) = 0 THEN << >> ELSE parts[1] \o Concat(Tail(parts))

\* str::matches(c).count()
CountChar(s, c) == Cardinality({i \in 1..Len(s) : s[i] = c})

LowerChar(c) ==
    CASE c = "A" -> "a"
      [] c = "B" -> "b"
      [] c = "C" -> "c"
      [] c = "P" -> "p"
      [] c = "X" -> "x"
      [] OTHER -> c

\* str::to_lowercase
ToLower(s) == [i \in 1..Len(s) |-> LowerChar(s[i])]

\* Vec::contains
SeqContains(s, x) == \E i \in 1..Len(s) : s[i] = x

Range(s) == {s[i] : i \in 1..Len(s)}

(***************************************************************************)
(* std::net::IpAddr                                                        *)
(***************************************************************************)
IsV4(ip) == Len(ip) = 4

IsV6(ip) == Len(ip) = 8

(***************************************************************************)
(* DNSBackend (src/backend/mod.rs)                                         *)
(***************************************************************************)
\* DNSBackend::new: a non-empty search domain gets a final dot
DNSBackendNew(containers, networks, reverse, ctr_dns, net_dns, net_internal, sd) ==
    [ ip_mappings         |-> containers,
      name_mappings       |-> networks,
      reverse_mappings    |-> reverse,
      ctr_dns_server      |-> ctr_dns,
      network_dns_server  |-> net_dns,
      network_is_internal |-> net_internal,
      search_domain       |-> IF Len(sd) > 0 /\ sd[Len(sd)] # "." THEN Append(sd, ".") ELSE sd ]

\* NormalizeName without the lowercasing of line 69
NormalizeNameKeepCase(b, entry) ==
    LET nosd == IF EndsWith(entry, b.search_domain)
                THEN Truncate(entry, Len(entry) - Len(b.search_domain))
                ELSE entry
    IN  IF EndsWith(nosd, <<".">>) THEN Truncate(nosd, Len(nosd) - 1) ELSE nosd

\* NormalizeName without the search-domain trim of lines 74-76
NormalizeNameKeepSearchDomain(b, entry) ==
    LET lower == ToLower(entry)
    IN  IF EndsWith(lower, <<".">>) THEN Truncate(lower, Len(lower) - 1) ELSE lower

\* NormalizeName without the final-dot trim of lines 79-81
NormalizeNameKeepDot(b, entry) ==
    LET lower == ToLower(entry)
    IN  IF EndsWith(lower, b.search_domain)
        THEN Truncate(lower, Len(lower) - Len(b.search_domain))
        ELSE lower

\* lines 68-81 of DNSBackend::lookup: lowercase, strip the search domain, strip one dot
NormalizeName(b, entry) ==
    LET lower == ToLower(entry)
        nosd  == IF EndsWith(lower, b.search_domain)
                 THEN Truncate(lower, Len(lower) - Len(b.search_domain))
                 ELSE lower
    IN  IF EndsWith(nosd, <<".">>) THEN Truncate(nosd, Len(nosd) - 1) ELSE nosd

\* LookupNets with the caller's network searched for known requesters as well
LookupNetsAlwaysFallback(b, requester, network_name) ==
    IF HasKey(b.ip_mappings, requester)
    THEN Append(b.ip_mappings[requester], network_name)
    ELSE <<network_name>>

\* LookupNets with no network searched for a requester that is not known
LookupNetsUnknownNone(b, requester, network_name) ==
    IF HasKey(b.ip_mappings, requester) THEN b.ip_mappings[requester] ELSE << >>

\* lines 85-93: the requester's networks, else the caller's network alone
LookupNets(b, requester, network_name) ==
    IF HasKey(b.ip_mappings, requester) THEN b.ip_mappings[requester] ELSE <<network_name>>

RECURSIVE LookupCollect(_, _, _)
\* lines 97-109: append the addresses of the name, network by network
LookupCollect(b, nets, name) ==
    IF Len(nets) = 0 THEN << >>
    ELSE LET net == nets[1]
             here == IF HasKey(b.name_mappings, net) /\ HasKey(b.name_mappings[net], name)
                     THEN b.name_mappings[net][name]
                     ELSE << >>
         IN  here \o LookupCollect(b, Tail(nets), name)

\* DNSBackend::lookup
Lookup(b, requester, network_name, entry) ==
    LET results == LookupCollect(b, LookupNets(b, requester, network_name), NormalizeName(b, entry))
    IN  IF Len(results) = 0 THEN None ELSE Some(results)

\* ResolversCollect stopping at the first network that names resolvers
RECURSIVE ResolversFirst(_, _)
ResolversFirst(b, nets) ==
    IF Len(nets) = 0 THEN << >>
    ELSE IF Len(GetOrEmpty(b.network_dns_server, nets[1])) > 0
    THEN b.network_dns_server[nets[1]]
    ELSE ResolversFirst(b, Tail(nets))

RECURSIVE ResolversCollect(_, _)
\* lines 124-131: the resolver lists of the networks, appended in order
ResolversCollect(b, nets) ==
    IF Len(nets) = 0 THEN << >>
    ELSE GetOrEmpty(b.network_dns_server, nets[1]) \o ResolversCollect(b, Tail(nets))

\* DNSBackend::get_network_scoped_resolvers
GetNetworkScopedResolvers(b, requester) ==
    IF HasKey(b.ip_mappings, requester)
    THEN Some(ResolversCollect(b, b.ip_mappings[requester]))
    ELSE None

\* CtrIsInternal holding as soon as one network of the requester is internal
CtrIsInternalAny(b, requester) ==
    /\ HasKey(b.ip_mappings, requester)
    /\ \E i \in 1..Len(b.ip_mappings[requester]) :
           LET net == b.ip_mappings[requester][i]
           IN  HasKey(b.network_is_internal, net) /\ b.network_is_internal[net]

\* DNSBackend::ctr_is_internal
CtrIsInternal(b, requester) ==
    IF HasKey(b.ip_mappings, requester)
    THEN \A i \in 1..Len(b.ip_mappings[requester]) :
            LET net == b.ip_mappings[requester][i]
            IN  HasKey(b.network_is_internal, net) => b.network_is_internal[net]
    ELSE FALSE

RECURSIVE ReverseLast(_, _, _)
\* ReverseFirst searching the networks from the last to the first
ReverseLast(b, nets, lookup_ip) ==
    IF Len(nets) = 0 THEN None
    ELSE LET last == nets[Len(nets)]
         IN  IF HasKey(b.reverse_mappings, last) /\ HasKey(b.reverse_mappings[last], lookup_ip)
             THEN Some(b.reverse_mappings[last][lookup_ip])
             ELSE ReverseLast(b, SubSeq(nets, 1, Len(nets) - 1), lookup_ip)

RECURSIVE ReverseFirst(_, _, _)
\* lines 168-174: the names of the first network whose reverse table has the address
ReverseFirst(b, nets, lookup_ip) ==
    IF Len(nets) = 0 THEN None
    ELSE IF HasKey(b.reverse_mappings, nets[1]) /\ HasKey(b.reverse_mappings[nets[1]], lookup_ip)
    THEN Some(b.reverse_mappings[nets[1]][lookup_ip])
    ELSE ReverseFirst(b, Tail(nets), lookup_ip)

\* DNSBackend::reverse_lookup
ReverseLookup(b, requester, lookup_ip) ==
    IF HasKey(b.ip_mappings, requester)
    THEN ReverseFirst(b, b.ip_mappings[requester], lookup_ip)
    ELSE None

(***************************************************************************)
(* parse_configs (src/config/mod.rs): the per-network files, already split *)
(* into fields by parse_config, are folded into the tables of the backend. *)
(* A file is [file_name, cfg]; cfg.ok = FALSE is a file parse_config       *)
(* rejected.  A container line is [id, v4, v6, aliases, dns_servers] with  *)
(* v4, v6 and dns_servers Options, as in CtrEntry.                         *)
(***************************************************************************)
AARDVARK_PID_FILE == <<"a","a","r","d","v","a","r","k",".","p","i","d">>

INTERNAL_SUFFIX == <<"%","i","n","t">>

EmptyTables ==
    [ network_membership  |-> EmptyMap,
      container_ips       |-> EmptyMap,
      reverse             |-> EmptyMap,
      network_names       |-> EmptyMap,
      listen_ips_4        |-> EmptyMap,
      listen_ips_6        |-> EmptyMap,
      ctr_dns_server      |-> EmptyMap,
      network_dns_server  |-> EmptyMap,
      network_is_internal |-> EmptyMap ]

\* AddNetworkDns recording the resolvers of the file for an internal network too
AddNetworkDnsKeepInternal(t, net, internal, dnsservers) ==
    IF Len(dnsservers) > 0
    THEN [t EXCEPT !.network_dns_server = Put(@, net, dnsservers)]
    ELSE t

\* lines 110-122: resolvers of a non-internal network, the empty list for an internal one
AddNetworkDns(t, net, internal, dnsservers) ==
    LET t1 == IF Len(dnsservers) > 0 /\ ~internal
              THEN [t EXCEPT !.network_dns_server = Put(@, net, dnsservers)]
              ELSE t
    IN  IF internal
        THEN [t1 EXCEPT !.network_dns_server = Put(@, net, << >>)]
        ELSE t1

RECURSIVE AddListenIps(_, _, _)
\* lines 124-135
AddListenIps(t, net, ips) ==
    IF Len(ips) = 0 THEN t
    ELSE LET ip == ips[1]
             t1 == IF IsV4(ip)
                   THEN [t EXCEPT !.listen_ips_4 = Put(@, net, Append(GetOrEmpty(@, net), ip))]
                   ELSE [t EXCEPT !.listen_ips_6 = Put(@, net, Append(GetOrEmpty(@, net), ip))]
         IN  AddListenIps(t1, net, Tail(ips))

RECURSIVE AddCtrIpsNamesReversed(_, _, _, _, _)
\* AddCtrIps appending the names of the line to the reverse table last name first
AddCtrIpsNamesReversed(t, net, internal, entry, ips) ==
    IF Len(ips) = 0 THEN t
    ELSE LET ip   == ips[1]
             rnet == GetOrEmpty(t.reverse, net)
             t1   == [t EXCEPT !.reverse =
                         Put(@, net, Put(rnet, ip, GetOrEmpty(rnet, ip) \o Rev(entry.aliases)))]
             t2   == IF ~internal
                     THEN [t1 EXCEPT !.ctr_dns_server = Put(@, ip, entry.dns_servers)]
                     ELSE t1
         IN  AddCtrIpsNamesReversed(t2, net, internal, entry, Tail(ips))

RECURSIVE AddCtrIps(_, _, _, _, _)
\* lines 148-177: one address family of one container line
AddCtrIps(t, net, internal, entry, ips) ==
    IF Len(ips) = 0 THEN t
    ELSE LET ip   == ips[1]
             rnet == GetOrEmpty(t.reverse, net)
             t1   == [t EXCEPT !.reverse =
                         Put(@, net, Put(rnet, ip, GetOrEmpty(rnet, ip) \o entry.aliases))]
             t2   == IF ~internal
                     THEN [t1 EXCEPT !.ctr_dns_server = Put(@, ip, entry.dns_servers)]
                     ELSE t1
         IN  AddCtrIps(t2, net, internal, entry, Tail(ips))

RECURSIVE AddAliasesPrepend(_, _, _, _)
\* AddAliases putting the addresses of the line before those already listed
AddAliasesPrepend(t, net, aliases, new_ctr_ips) ==
    IF Len(aliases) = 0 THEN t
    ELSE LET nnet == GetOrEmpty(t.network_names, net)
             t1   == [t EXCEPT !.network_names =
                         Put(@, net, Put(nnet, aliases[1], new_ctr_ips \o GetOrEmpty(nnet, aliases[1])))]
         IN  AddAliasesPrepend(t1, net, Tail(aliases), new_ctr_ips)

RECURSIVE AddAliases(_, _, _, _)
\* lines 182-187
AddAliases(t, net, aliases, new_ctr_ips) ==
    IF Len(aliases) = 0 THEN t
    ELSE LET nnet == GetOrEmpty(t.network_names, net)
             t1   == [t EXCEPT !.network_names =
                         Put(@, net, Put(nnet, aliases[1], GetOrEmpty(nnet, aliases[1]) \o new_ctr_ips))]
         IN  AddAliases(t1, net, Tail(aliases), new_ctr_ips)

OptSeq(o) == IF o.some THEN o.v ELSE << >>

\* lines 137-190: one container line
AddEntry(t, net, internal, entry) ==
    LET nets == GetOrEmpty(t.network_membership, entry.id)
        t1 == [t EXCEPT !.network_membership =
                  Put(@, entry.id, IF SeqContains(nets, net) THEN nets ELSE Append(nets, net))]
        t2 == AddCtrIps(t1, net, internal, entry, OptSeq(entry.v4))
        t3 == AddCtrIps(t2, net, internal, entry, OptSeq(entry.v6))
        new_ctr_ips == OptSeq(entry.v4) \o OptSeq(entry.v6)
        t4 == [t3 EXCEPT !.container_ips = Put(@, entry.id, GetOrEmpty(@, entry.id) \o new_ctr_ips)]
        t5 == [t4 EXCEPT !.network_names = Put(@, net, GetOrEmpty(@, net))]
        t6 == AddAliases(t5, net, entry.aliases, new_ctr_ips)
    IN  [t6 EXCEPT !.network_is_internal = Put(@, net, internal)]

RECURSIVE AddEntries(_, _, _, _)
AddEntries(t, net, internal, entries) ==
    IF Len(entries) = 0 THEN t
    ELSE AddEntries(AddEntry(t, net, internal, entries[1]), net, internal, Tail(entries))

\* lines 59-191: one directory entry
AddFile(t, file) ==
    IF file.file_name = AARDVARK_PID_FILE THEN t
    ELSE IF ~file.cfg.ok THEN t
    ELSE LET internal == EndsWith(file.file_name, INTERNAL_SUFFIX)
             net == StripSuffix(file.file_name, INTERNAL_SUFFIX)
             t1  == AddNetworkDns(t, net, internal, file.cfg.network_dnsservers)
             t2  == AddListenIps(t1, net, file.cfg.network_bind_ip)
         IN  AddEntries(t2, net, internal, file.cfg.container_entry)

RECURSIVE AddFilesStopAtBad(_, _)
\* AddFiles leaving the loop at the first file that parse_config rejects
AddFilesStopAtBad(t, files) ==
    IF Len(files) = 0 THEN t
    ELSE IF files[1].file_name # AARDVARK_PID_FILE /\ ~files[1].cfg.ok THEN t
    ELSE AddFilesStopAtBad(AddFile(t, files[1]), Tail(files))

RECURSIVE AddFiles(_, _)
\* lines 51-198: the loop over the directory entries
AddFiles(t, files) ==
    IF Len(files) = 0 THEN t ELSE AddFiles(AddFile(t, files[1]), Tail(files))

RECURSIVE CtrsForIps(_, _, _)
CtrsForIps(ctrs, ips, nets) ==
    IF Len(ips) = 0 THEN ctrs
    ELSE CtrsForIps(Put(ctrs, ips[1], GetOrEmpty(ctrs, ips[1]) \o nets), Tail(ips), nets)

RECURSIVE BuildCtrsFirstIpOnly(_, _, _)
\* BuildCtrs entering only the first address of every container
BuildCtrsFirstIpOnly(t, order, ctrs) ==
    IF Len(order) = 0 THEN ctrs
    ELSE BuildCtrsFirstIpOnly(t, Tail(order),
            CtrsForIps(ctrs,
                       SubSeq(t.container_ips[order[1]], 1,
                              IF Len(t.container_ips[order[1]]) > 0 THEN 1 ELSE 0),
                       t.network_membership[order[1]]))

RECURSIVE BuildCtrs(_, _, _)
\* lines 201-217: ip -> networks, visiting the containers in the order `order`
BuildCtrs(t, order, ctrs) ==
    IF Len(order) = 0 THEN ctrs
    ELSE BuildCtrs(t, Tail(order),
                   CtrsForIps(ctrs, t.container_ips[order[1]], t.network_membership[order[1]]))

\* The orders in which a HashMap with these keys may be iterated
Orders(keys) ==
    {o \in [1..Cardinality(keys) -> keys] : \A i, j \in 1..Cardinality(keys) : i # j => o[i] # o[j]}

\* parse_configs: the snapshot and the two listen plans, for one iteration
\* order of the container_ips map
ParseConfigsIn(files, filter_search_domain, order) ==
    LET t == AddFiles(EmptyTables, files)
    IN  [ backend |-> DNSBackendNew(BuildCtrs(t, order, EmptyMap), t.network_names, t.reverse,
                                    t.ctr_dns_server, t.network_dns_server,
                                    t.network_is_internal, filter_search_domain),
          listen_ip_v4 |-> t.listen_ips_4,
          listen_ip_v6 |-> t.listen_ips_6 ]

\* every result parse_configs can return for the directory
ParseConfigs(files, filter_search_domain) ==
    {ParseConfigsIn(files, filter_search_domain, o) :
        o \in Orders(DOMAIN AddFiles(EmptyTables, files).container_ips)}

(***************************************************************************)
(* Text forms: IP literals (std::net parse) and DNS names (trust-dns Name) *)
(***************************************************************************)
DigitVal(c) ==
    CASE c = "0" -> 0 [] c = "1" -> 1 [] c = "2" -> 2 [] c = "3" -> 3 [] c = "4" -> 4
      [] c = "5" -> 5 [] c = "6" -> 6 [] c = "7" -> 7 [] c = "8" -> 8 [] c = "9" -> 9
      [] c = "a" -> 10 [] c = "b" -> 11 [] c = "c" -> 12 [] c = "d" -> 13
      [] c = "e" -> 14 [] c = "f" -> 15
      [] OTHER -> 99

RECURSIVE ParseNum(_, _, _)
ParseNum(s, base, acc) ==
    IF Len(s) = 0 THEN acc ELSE ParseNum(Tail(s), base, acc * base + DigitVal(s[1]))

IsNum(s, base, maxlen) ==
    /\ Len(s) \in 1..maxlen
    /\ \A i \in 1..Len(s) : DigitVal(s[i]) < base

\* "a.b.c.d": four decimal octets, no leading zeros
ParseIpv4(s) ==
    LET parts == Split(s, ".")
    IN  IF /\ Len(parts) = 4
           /\ \A i \in 1..4 : /\ IsNum(parts[i], 10, 3)
                              /\ (Len(parts[i]) > 1 => parts[i][1] # "0")
                              /\ ParseNum(parts[i], 10, 0) <= 255
        THEN Some([i \in 1..4 |-> ParseNum(parts[i], 10, 0)])
        ELSE None

\* "g:g:g:g:g:g:g:g": eight groups of one to four hex digits (the only form
\* the reverse-name reconstruction can produce for a whole address)
ParseIpv6(s) ==
    LET parts == Split(s, ":")
    IN  IF Len(parts) = 8 /\ \A i \in 1..8 : IsNum(parts[i], 16, 4)
        THEN Some([i \in 1..8 |-> ParseNum(parts[i], 16, 0)])
        ELSE None

\* str::parse::<IpAddr>()
ParseIpAddr(s) == IF ParseIpv4(s).some THEN ParseIpv4(s) ELSE ParseIpv6(s)

\* Name::new(): the empty name
NameNew == [labels |-> << >>, fqdn |-> FALSE]

\* Name::from_str_relaxed / Name::from_ascii: labels between dots, a final
\* dot makes the name absolute, an empty label inside is an error
ParseName(s) ==
    IF s = << >> THEN Some(NameNew)
    ELSE IF s = <<".">> THEN Some([labels |-> << >>, fqdn |-> TRUE])
    ELSE LET parts  == Split(s, ".")
             fq     == parts[Len(parts)] = << >>
             labels == IF fq THEN SubSeq(parts, 1, Len(parts) - 1) ELSE parts
         IN  IF \E i \in 1..Len(labels) : labels[i] = << >>
             THEN None
             ELSE Some([labels |-> labels, fqdn |-> fq])

\* Name::to_string
NameToString(n) ==
    IF Len(n.labels) = 0 THEN (IF n.fqdn THEN <<".">> ELSE << >>)
    ELSE Join(n.labels, <<".">>) \o (IF n.fqdn THEN <<".">> ELSE << >>)

(***************************************************************************)
(* parse_config (src/config/mod.rs): the text of one network file          *)
(***************************************************************************)
\* the characters of a string literal
Chars(s) == [i \in 1..Len(s) |-> SubSeq(s, i, i)]

\* field.split(',').map(|i| i.parse()).collect(): every piece must parse
ParseList(field, Parse(_)) ==
    LET pieces == Split(field, ",")
    IN  IF \A i \in 1..Len(pieces) : Parse(pieces[i]).some
        THEN Some([i \in 1..Len(pieces) |-> Parse(pieces[i]).v])
        ELSE None

ConfigErr == [ok |-> FALSE]

\* lines 266-306: the first non-empty line, bind addresses and network resolvers
ParseFirstLine(line) ==
    LET network_parts == Split(line, " ")
        bind == ParseList(network_parts[1], ParseIpAddr)
        dns  == IF Len(network_parts) > 1 THEN ParseList(network_parts[2], ParseIpAddr) ELSE Some(<< >>)
    IN  IF bind.some /\ dns.some
        THEN [ok |-> TRUE, bind_addrs |-> bind.v, network_dns_servers |-> dns.v]
        ELSE ConfigErr

\* lines 308-382: one container line
ParseCtrLine(line) ==
    LET parts == Split(line, " ")
    IN  IF Len(parts) < 4 THEN ConfigErr
        ELSE LET v4 == IF Len(parts[2]) > 0 THEN ParseList(parts[2], ParseIpv4) ELSE None
                 v6 == IF Len(parts[3]) > 0 THEN ParseList(parts[3], ParseIpv6) ELSE None
                 names == Split(parts[4], ",")
                 aliases == [i \in 1..Len(names) |-> ToLower(names[i])]
                 dns == IF Len(parts) = 5 /\ Len(parts[5]) > 0
                        THEN ParseList(parts[5], ParseIpAddr) ELSE None
             IN  IF \/ (Len(parts[2]) > 0 /\ ~v4.some)
                    \/ (Len(parts[3]) > 0 /\ ~v6.some)
                    \/ (Len(parts) = 5 /\ Len(parts[5]) > 0 /\ ~dns.some)
                 THEN ConfigErr
                 ELSE [ok |-> TRUE,
                       entry |-> [id |-> ToLower(parts[1]), v4 |-> v4, v6 |-> v6,
                                  aliases |-> aliases, dns_servers |-> dns]]

RECURSIVE ParseLinesKeepEmptyBind(_, _, _)
\* ParseLines returning the file also when no line gave a bind address
ParseLinesKeepEmptyBind(lines, is_first, acc) ==
    IF Len(lines) = 0 THEN acc
    ELSE IF Len(lines[1]) = 0 THEN ParseLinesKeepEmptyBind(Tail(lines), is_first, acc)
    ELSE IF is_first
    THEN LET first == ParseFirstLine(lines[1])
         IN  IF ~first.ok THEN ParseLinesKeepEmptyBind(Tail(lines), FALSE, acc)
             ELSE ParseLinesKeepEmptyBind(Tail(lines), FALSE,
                     [acc EXCEPT !.network_bind_ip = first.bind_addrs,
                                 !.network_dnsservers = first.network_dns_servers])
    ELSE LET ctr == ParseCtrLine(lines[1])
         IN  IF ~ctr.ok THEN ConfigErr
             ELSE ParseLinesKeepEmptyBind(Tail(lines), FALSE,
                     [acc EXCEPT !.container_entry = Append(@, ctr.entry)])

RECURSIVE ParseLines(_, _, _)
\* lines 262-397: the loop over the lines and the final bind-address test
ParseLines(lines, is_first, acc) ==
    IF Len(lines) = 0
    THEN (IF Len(acc.network_bind_ip) = 0 THEN ConfigErr ELSE acc)
    ELSE IF Len(lines[1]) = 0 THEN ParseLines(Tail(lines), is_first, acc)
    ELSE IF is_first
    THEN LET first == ParseFirstLine(lines[1])
         IN  IF ~first.ok THEN ConfigErr
             ELSE ParseLines(Tail(lines), FALSE,
                     [acc EXCEPT !.network_bind_ip = first.bind_addrs,
                                 !.network_dnsservers = first.network_dns_servers])
    ELSE LET ctr == ParseCtrLine(lines[1])
         IN  IF ~ctr.ok THEN ConfigErr
             ELSE ParseLines(Tail(lines), FALSE,
                     [acc EXCEPT !.container_entry = Append(@, ctr.entry)])

\* parse_config: the content of a file that could be read
ParseConfig(content) ==
    ParseLines(Split(content, "\n"), TRUE,
               [ok |-> TRUE, network_bind_ip |-> << >>, container_entry |-> << >>,
                network_dnsservers |-> << >>])

(***************************************************************************)
(* parse_resolv_conf (src/server/serve.rs): the text of the resolver file  *)
(***************************************************************************)
DNS_PORT == 53

\* the only interface name if_nametoindex resolves: the loopback, index 1
IfNameToIndex(name) == IF name = Chars("lo") THEN Some(1) ELSE None

\* str::parse::<u32> on the zone: decimal digits (of at most nine places here,
\* so that the value stays inside the integers of the checker)
ParseU32(s) ==
    IF IsNum(s, 10, 9) THEN Some(ParseNum(s, 10, 0)) ELSE None

\* str::split_once over a set of characters: the text before the first of them
BeforeAny(s, chars) ==
    LET hits == {i \in 1..Len(s) : s[i] \in chars}
    IN  IF hits = {} THEN s
        ELSE SubSeq(s, 1, (CHOOSE i \in hits : \A j \in hits : i <= j) - 1)

\* str::split_once(c): None when c does not occur
SplitOnce(s, c) ==
    LET hits == {i \in 1..Len(s) : s[i] = c}
    IN  IF hits = {} THEN None
        ELSE LET k == CHOOSE i \in hits : \A j \in hits : i <= j
             IN  Some(<<SubSeq(s, 1, k - 1), SubSeq(s, k + 1, Len(s))>>)

IsWhitespace(c) == c \in {" ", "\t", "\r"}

RECURSIVE SplitWhitespaceFrom(_, _, _)
SplitWhitespaceFrom(s, i, cur) ==
    IF i > Len(s) THEN (IF Len(cur) > 0 THEN <<cur>> ELSE << >>)
    ELSE IF IsWhitespace(s[i])
    THEN (IF Len(cur) > 0 THEN <<cur>> ELSE << >>) \o SplitWhitespaceFrom(s, i + 1, << >>)
    ELSE SplitWhitespaceFrom(s, i + 1, Append(cur, s[i]))

\* str::split_whitespace: the non-empty pieces between runs of whitespace
SplitWhitespace(s) == SplitWhitespaceFrom(s, 1, << >>)

ResolvErr == [ok |-> FALSE]

\* lines 439-475: the address after `nameserver`, with its optional zone
ParseNameserver(text) ==
    LET zoned == SplitOnce(text, "%")
        ip_text == IF zoned.some THEN zoned.v[1] ELSE text
        scope == IF ~zoned.some THEN Some(None)
                 ELSE IF ParseU32(zoned.v[2]).some THEN Some(ParseU32(zoned.v[2]))
                 ELSE IF IfNameToIndex(zoned.v[2]).some THEN Some(IfNameToIndex(zoned.v[2]))
                 ELSE None
        ip == ParseIpAddr(ip_text)
    IN  IF ~scope.some \/ ~ip.some THEN ResolvErr
        ELSE IF IsV4(ip.v)
        THEN (IF scope.v.some THEN ResolvErr
              ELSE [ok |-> TRUE, addr |-> [ip |-> ip.v, port |-> DNS_PORT, scope_id |-> 0]])
        ELSE [ok |-> TRUE,
              addr |-> [ip |-> ip.v, port |-> DNS_PORT,
                        scope_id |-> IF scope.v.some THEN scope.v.v ELSE 0]]

RECURSIVE ResolvLines(_, _)
\* lines 429-481: the loop over the lines
ResolvLines(lines, nameservers) ==
    IF Len(lines) = 0 THEN [ok |-> TRUE, v |-> nameservers]
    ELSE LET line_parts == SplitWhitespace(BeforeAny(lines[1], {"#", ";"}))
         IN  IF Len(line_parts) >= 2 /\ line_parts[1] = Chars("nameserver")
             THEN LET ns == ParseNameserver(line_parts[2])
                  IN  IF ~ns.ok THEN ResolvErr
                      ELSE ResolvLines(Tail(lines), Append(nameservers, ns.addr))
             ELSE ResolvLines(Tail(lines), nameservers)

\* ParseResolvConf keeping every nameserver of the file
ParseResolvConfNoTruncate(content) == ResolvLines(Split(content, "\n"), << >>)

\* parse_resolv_conf: at most the first three nameservers
ParseResolvConf(content) ==
    LET all == ResolvLines(Split(content, "\n"), << >>)
    IN  IF ~all.ok THEN ResolvErr
        ELSE [ok |-> TRUE, v |-> SubSeq(all.v, 1, IF Len(all.v) < 3 THEN Len(all.v) ELSE 3)]

\* the resolver file as it is on disk, with what parse_resolv_conf makes of it
ResolvFile(content) ==
    [content |-> Chars(content), parsed |-> ParseResolvConf(Chars(content))]

\* get_upstream_resolvers: the file may be unreadable
GetUpstreamResolvers(resolv) == IF resolv.some THEN resolv.v.parsed ELSE ResolvErr

(***************************************************************************)
(* The DNS engine (src/dns/coredns.rs): the processing of one datagram in  *)
(* CoreDns::register_port.  A message is a record of the header fields the *)
(* code reads or writes, its question and its answer records.              *)
(***************************************************************************)
ANSWER_TTL == 86400

IN_ADDR_ARPA == <<".","i","n","-","a","d","d","r",".","a","r","p","a",".">>

IP6_ARPA == <<".","i","p","6",".","a","r","p","a",".">>

NOT_AN_IP == <<"n","o","t"," ","a","n"," ","i","p">>

\* Reply without the recursion-available fix-up
ReplyKeepFlags(msg) ==
    IF ~msg.encodable THEN None ELSE Some([msg EXCEPT !.message_type = "Response"])

\* reply(): the message put on the client's stream, None when it cannot be encoded
Reply(msg) ==
    IF ~msg.encodable THEN None
    ELSE Some([msg EXCEPT !.message_type = "Response",
                          !.recursion_available =
                              IF msg.recursion_desired /\ ~msg.recursion_available THEN TRUE ELSE @])

\* forward_dns_req(): the upstream response with the id of the request
ForwardDnsReq(req, response) == [response EXCEPT !.id = req.id]

\* Nameservers with the network-scoped resolvers added to the container's
NameserversMixed(b, src, host_nameservers) ==
    LET ctr == IF HasKey(b.ctr_dns_server, src) /\ b.ctr_dns_server[src].some
               THEN b.ctr_dns_server[src].v ELSE << >>
        net == IF GetNetworkScopedResolvers(b, src).some
               THEN GetNetworkScopedResolvers(b, src).v ELSE << >>
    IN  IF Len(ctr \o net) > 0 THEN ctr \o net ELSE host_nameservers

\* lines 138-158: the resolvers this requester's query would be forwarded to
Nameservers(b, src, host_nameservers) ==
    LET ctr == IF HasKey(b.ctr_dns_server, src) THEN Some(b.ctr_dns_server[src]) ELSE None
        nameservers_scoped ==
            IF ctr.some /\ ctr.v.some
            THEN (IF Len(ctr.v.v) > 0 THEN ctr.v.v ELSE << >>)
            ELSE IF GetNetworkScopedResolvers(b, src).some
            THEN GetNetworkScopedResolvers(b, src).v
            ELSE << >>
    IN  IF Len(nameservers_scoped) > 0 THEN nameservers_scoped ELSE host_nameservers

RECURSIVE Chunks4(_)
\* lines 189-198: split_off(4) until at most four characters remain
Chunks4(s) ==
    IF Len(s) > 4 THEN <<SubSeq(s, 1, 4)>> \o Chunks4(SubSeq(s, 5, Len(s)))
    ELSE IF Len(s) > 0 THEN <<s>>
    ELSE << >>

\* lines 178-204: the address text rebuilt from a reverse-query name
PtrLookupIp(name) ==
    IF Contains(name, IN_ADDR_ARPA)
    THEN Join(Rev(Split(TrimEndMatches(name, IN_ADDR_ARPA), ".")), <<".">>)
    ELSE IF Contains(name, IP6_ARPA)
    THEN Join(Chunks4(Concat(Rev(Split(TrimEndMatches(name, IP6_ARPA), ".")))), <<":">>)
    ELSE NOT_AN_IP

RECURSIVE PtrAnswers(_)
\* lines 211-222: one PTR record per name that parses, target made absolute
PtrAnswers(names) ==
    IF Len(names) = 0 THEN << >>
    ELSE LET answer == ParseName(Append(names[1], "."))
         IN  (IF answer.some
              THEN << [name |-> NameNew, ttl |-> ANSWER_TTL, rr_type |-> "PTR",
                       dns_class |-> "IN", data |-> answer.v] >>
              ELSE << >>) \o PtrAnswers(Tail(names))

\* lines 177-226: the replies sent by the PTR block (none or one)
PtrBlock(b, src, req, name, record_type) ==
    IF record_type # "PTR" THEN << >>
    ELSE LET lookup_ip == ParseIpAddr(PtrLookupIp(name))
         IN  IF ~lookup_ip.some THEN << >>
             ELSE LET reverse_lookup == ReverseLookup(b, src, lookup_ip.v)
                  IN  IF ~reverse_lookup.some THEN << >>
                      ELSE LET sent == Reply([req EXCEPT !.answers = @ \o PtrAnswers(reverse_lookup.v)])
                           IN  IF sent.some THEN << [site |-> "ptr", msg |-> sent.v] >> ELSE << >>

\* lines 247-270: the request name with the search domain taken off
FallbackRequestName(name, filter_search_domain) ==
    LET ndots == Append(filter_search_domain, ".")
        r1 == IF EndsWith(name, filter_search_domain)
              THEN Append(Truncate(name, Len(name) - Len(filter_search_domain)), ".")
              ELSE name
    IN  IF EndsWith(r1, ndots)
        THEN Append(Truncate(r1, Len(r1) - Len(ndots)), ".")
        ELSE r1

\* lines 240-279: the listener's own network searched for key + "."
FallbackResolve(b, network_name, filter_search_domain, name) ==
    IF ~HasKey(b.name_mappings, network_name) THEN << >>
    ELSE LET container_mappings == b.name_mappings[network_name]
             hits == {key \in DOMAIN container_mappings :
                         Append(key, ".") = FallbackRequestName(name, filter_search_domain)}
         IN  IF hits = {} THEN << >> ELSE container_mappings[CHOOSE key \in hits : TRUE]

\* lines 229-281: the backend lookup, the listener's network being the one
\* handed to DNSBackend::lookup, then the search of the listener's network
ResolvedIpList(b, src, network_name, filter_search_domain, name) ==
    LET res == Lookup(b, src, network_name, name)
    IN  IF res.some THEN res.v
        ELSE FallbackResolve(b, network_name, filter_search_domain, name)

ARecord(record_name, ip) ==
    [name |-> record_name, ttl |-> ANSWER_TTL, rr_type |-> "A", dns_class |-> "IN", data |-> ip]

AAAARecord(record_name, ip) ==
    [name |-> record_name, ttl |-> ANSWER_TTL, rr_type |-> "AAAA", dns_class |-> "IN", data |-> ip]

\* LocalAnswers adding a record for every address, whatever its family
LocalAnswersAnyFamily(record_name, record_type, resolved_ip_list) ==
    IF record_type = "A"
    THEN [i \in 1..Len(resolved_ip_list) |-> ARecord(record_name, resolved_ip_list[i])]
    ELSE IF record_type = "AAAA"
    THEN [i \in 1..Len(resolved_ip_list) |-> AAAARecord(record_name, resolved_ip_list[i])]
    ELSE << >>

\* lines 291-319: the records added for the addresses of the asked family
LocalAnswers(record_name, record_type, resolved_ip_list) ==
    IF record_type = "A"
    THEN LET v4 == SelectSeq(resolved_ip_list, IsV4)
         IN  [i \in 1..Len(v4) |-> ARecord(record_name, v4[i])]
    ELSE IF record_type = "AAAA"
    THEN LET v6 == SelectSeq(resolved_ip_list, IsV6)
         IN  [i \in 1..Len(v6) |-> AAAARecord(record_name, v6[i])]
    ELSE << >>

\* line 325: the conditions under which the query is not forwarded
NoForward(no_proxy, filter_search_domain, request_name) ==
    \/ no_proxy
    \/ EndsWith(request_name, filter_search_domain)
    \/ EndsWith(request_name, Append(filter_search_domain, "."))
    \/ CountChar(request_name, ".") = 1

NoTask == [active |-> FALSE, req |-> None, nameservers |-> << >>, idx |-> 0]

\* lines 128-352: everything the listener does for one parsed datagram:
\* the replies it sends, in order, and the forwarder task it spawns
HandleQuery(b, network_name, filter_search_domain, no_proxy, host_nameservers, src, req) ==
    LET name        == NameToString(req.query.name)
        record_type == req.query.query_type
        nameservers == Nameservers(b, src, host_nameservers)
        ptr_sent    == PtrBlock(b, src, req, name, record_type)
        resolved_ip_list == ResolvedIpList(b, src, network_name, filter_search_domain, name)
        record_name == ParseName(name)
    IN  IF ~record_name.some
        THEN [sent |-> ptr_sent, task |-> NoTask]
        ELSE IF Len(resolved_ip_list) > 0
        THEN LET r == Reply([req EXCEPT !.answers =
                                @ \o LocalAnswers(record_name.v, record_type, resolved_ip_list)])
             IN  [sent |-> ptr_sent \o (IF r.some THEN << [site |-> "local", msg |-> r.v] >> ELSE << >>),
                  task |-> NoTask]
        ELSE IF NoForward(no_proxy, filter_search_domain, name)
        THEN LET r == Reply([req EXCEPT !.response_code = "NXDomain"])
             IN  [sent |-> ptr_sent \o (IF r.some THEN << [site |-> "nx", msg |-> r.v] >> ELSE << >>),
                  task |-> NoTask]
        ELSE [sent |-> ptr_sent,
              task |-> [active |-> TRUE, req |-> Some(req), nameservers |-> nameservers, idx |-> 1]]

(***************************************************************************)
(* The configurations, requesters and queries explored                     *)
(***************************************************************************)
MaxHostResolvers == 2

N1 == <<"n","1">>

N2 == <<"n","2">>

GW1 == <<10, 0, 0, 1>>

IPA == <<10, 0, 0, 2>>

IPB == <<10, 0, 0, 3>>

GW2 == <<10, 1, 0, 1>>

GW6 == <<64768, 0, 0, 0, 0, 0, 0, 1>>

IPA2 == <<10, 1, 0, 2>>

IPC == <<10, 1, 0, 3>>

IPA6 == <<64768, 0, 0, 0, 0, 0, 0, 2>>

HOSTIP == <<192, 168, 0, 9>>

DNS1 == <<8, 8, 8, 8>>

DNS2 == <<1, 1, 1, 1>>

DNS3 == <<9, 9, 9, 9>>

HostPool == << <<127, 0, 0, 53>>, <<192, 168, 0, 1>>, <<192, 168, 0, 2>> >>

CtrEntry(id, v4, v6, aliases, dns_servers) ==
    [id |-> id, v4 |-> v4, v6 |-> v6, aliases |-> aliases, dns_servers |-> dns_servers]

ConfigFile(file_name, bind, dnsservers, entries) ==
    [file_name |-> file_name,
     cfg |-> [ok |-> TRUE, network_bind_ip |-> bind, container_entry |-> entries,
              network_dnsservers |-> dnsservers]]

BadFile(file_name) == [file_name |-> file_name, cfg |-> [ok |-> FALSE]]

C1ID == <<"c","1">>

C2ID == <<"c","2">>

C3ID == <<"c","3">>

\* n1 without resolvers, n2 with resolvers; container c1 is on both
DirTwoNets ==
    << ConfigFile(N1, <<GW1>>, << >>,
          << CtrEntry(C1ID, Some(<<IPA>>), Some(<<IPA6>>), << <<"a">>, <<"x">> >>, None),
             CtrEntry(C2ID, Some(<<IPB>>), None, << <<"b">> >>, Some(<<DNS1>>)) >>),
       ConfigFile(N2, <<GW2>>, <<DNS2, DNS3, DNS1>>,
          << CtrEntry(C1ID, Some(<<IPA2>>), None, << <<"a">> >>, None),
             CtrEntry(C3ID, Some(<<IPC>>), None, << <<"c">> >>, None) >>) >>

\* one internal network, whose file still names resolvers
DirInternal ==
    << ConfigFile(N1 \o INTERNAL_SUFFIX, <<GW1>>, <<DNS2>>,
          << CtrEntry(C1ID, Some(<<IPA>>), Some(<<IPA6>>), << <<"a">>, <<"x">> >>, Some(<<DNS1>>)),
             CtrEntry(C2ID, Some(<<IPB>>), None, << <<"b">> >>, None) >>) >>

\* an internal and a plain network, the pid file and a file that does not parse
DirMixed ==
    << BadFile(<<"b","a","d">>),
       ConfigFile(N2 \o INTERNAL_SUFFIX, <<GW2>>, << >>,
          << CtrEntry(C1ID, Some(<<IPA2>>), None, << <<"a">> >>, None),
             CtrEntry(C3ID, Some(<<IPC>>), None, << <<"c">> >>, None) >>),
       BadFile(AARDVARK_PID_FILE),
       ConfigFile(N1, <<GW1>>, <<DNS3>>,
          << CtrEntry(C1ID, Some(<<IPA>>), None, << <<"a">> >>, None),
             CtrEntry(C2ID, Some(<<IPB>>), None, << <<"b">> >>, Some(<<DNS1, DNS2>>)) >>) >>

\* a network file with its first line only: a listener and no container
DirEmptyNet == << ConfigFile(N1, <<GW1>>, <<DNS3>>, << >>) >>

Dirs == {DirTwoNets, DirInternal, DirMixed, DirEmptyNet}

\* two networks with resolvers; container c1 declares the same address, under
\* different names, on both
DirSharedIp ==
    << ConfigFile(N1, <<GW1>>, <<DNS1>>,
          << CtrEntry(C1ID, Some(<<IPA>>), None, << <<"a">> >>, None),
             CtrEntry(C2ID, Some(<<IPB>>), None, << <<"b">> >>, None) >>),
       ConfigFile(N2, <<GW2>>, <<DNS2>>,
          << CtrEntry(C1ID, Some(<<IPA>>), None, << <<"x">>, <<"a">> >>, None),
             CtrEntry(C3ID, Some(<<IPC>>), None, << <<"c">> >>, None) >>) >>

N3 == <<"n","3">>

\* a file as it is on disk, with what parse_config makes of it
TextFile(file_name, content) ==
    [file_name |-> file_name, content |-> Chars(content), cfg |-> ParseConfig(Chars(content))]

\* a well-formed file, a file whose first line names no address, and an
\* empty file
DirText ==
    << TextFile(N1, "10.0.0.1 9.9.9.9\nc1 10.0.0.2  a,X\nC2 10.0.0.3  b 8.8.8.8\n"),
       TextFile(N2, "\nzz\nc3 10.1.0.3  c\n"),
       TextFile(N3, "") >>

\* one network listening on an IPv6 and two IPv4 addresses; the name a is
\* declared by two container lines, the first with several addresses
DirSharedName ==
    << ConfigFile(N1, <<GW6, GW1, GW2>>, <<DNS1>>,
          << CtrEntry(C1ID, Some(<<IPA, IPA2>>), Some(<<IPA6>>), << <<"a">> >>, None),
             CtrEntry(C2ID, Some(<<IPB>>), None, << <<"b">>, <<"a">> >>, None) >>) >>

\* the directories whose snapshots the backend operations are called on
BackendDirs == Dirs \cup {DirSharedIp, DirText, DirSharedName}

FilterSearchDomains == { <<".","p">>, << >> }

\* the search domains of the snapshots the backend operations are called on
BackendSearchDomains == FilterSearchDomains \cup { <<".","P">> }

Requesters == {IPA, IPB, IPC, HOSTIP}

QName(labels) == [labels |-> labels, fqdn |-> TRUE]

PtrNameV4(a, b, c, d) == QName(<< a, b, c, d, <<"i","n","-","a","d","d","r">>, <<"a","r","p","a">> >>)

\* fd00::2 as 32 nibbles, lowest first
Ipa6Nibbles == <<"2">> \o [i \in 1..29 |-> "0"] \o <<"d","f">>

PtrNameIpa6 == QName([i \in 1..32 |-> <<Ipa6Nibbles[i]>>] \o << <<"i","p","6">>, <<"a","r","p","a">> >>)

QueryNames ==
    { QName(<< <<"a">> >>),
      QName(<< <<"A">> >>),
      QName(<< <<"a">>, <<"p">> >>),
      QName(<< <<"b">> >>),
      QName(<< <<"z","z">> >>),
      QName(<< <<"z","z">>, <<"p">> >>),
      QName(<< <<"e">>, <<"o","r","g">> >>),
      PtrNameV4(<<"3">>, <<"0">>, <<"0">>, <<"1","0">>),
      PtrNameV4(<<"9">>, <<"9">>, <<"9">>, <<"9">>),
      PtrNameIpa6 }

RecordTypes == {"A", "AAAA", "PTR", "MX"}

QueryIds == {1}

UpstreamIds == {1, 3}

\* a query as parse_dns_msg returns it
Request(id, rd, name, record_type) ==
    [id |-> id, message_type |-> "Query", recursion_desired |-> rd, recursion_available |-> FALSE,
     response_code |-> "NoError", query |-> [name |-> name, query_type |-> record_type],
     answers |-> << >>, encodable |-> TRUE]

Requests ==
    {Request(id, rd, name, t) : id \in QueryIds, rd \in BOOLEAN, name \in QueryNames, t \in RecordTypes}

\* what an upstream resolver may send back for a request: the id is the one
\* the client library gave the outgoing copy, the flags are the resolver's
UpstreamResponses(r) ==
    {[id |-> id, message_type |-> "Response", recursion_desired |-> rd, recursion_available |-> ra,
      response_code |-> "NoError", query |-> r.query,
      answers |-> << [name |-> r.query.name, ttl |-> 300, rr_type |-> r.query.query_type,
                      dns_class |-> "IN", data |-> "upstream"] >>,
      encodable |-> e] : id \in UpstreamIds, rd \in BOOLEAN, ra \in BOOLEAN, e \in BOOLEAN}

HostLists == {SubSeq(HostPool, 1, n) : n \in 0..MaxHostResolvers}

LookupEntries ==
    { <<"a">>, <<"A">>, <<"a",".">>, <<"a",".","p",".">>, <<"a",".","p">>, <<"A",".","P",".">>,
      <<"b">>, <<"c">>, <<"z","z">>, << >>, C1ID }

FallbackNetworks == {N1, N2, << >>}

LookupRequesters == Requesters \cup {IPA6, IPA2}

(***************************************************************************)
(* State                                                                   *)
(***************************************************************************)
VARIABLES
    config,               \* the config directory the snapshot was parsed from
    backend,              \* CoreDns.backend: the snapshot the listener serves from
    filter_search_domain, \* CoreDns.filter_search_domain
    no_proxy,             \* AARDVARK_NO_PROXY is set
    network_name,         \* CoreDns.network_name
    resolv_conf,          \* CoreDns.resolv_conf.nameservers
    phase,                \* where the processing of the current datagram is
    query,                \* the datagram being processed: source address and message
    sent,                 \* the replies put on the client's stream, in order
    task,                 \* the forwarder task spawned for the datagram
    contacted,            \* the resolvers the forwarder sent the query to, in order
    call,                 \* the last call made on the backend and its result
    config_dir,           \* the config directory on disk: None when it is no directory
    resolv_file,          \* /etc/resolv.conf on disk: None when it cannot be read
    pid_file,             \* the PID file exists in the config directory
    process,              \* where the forked child is: its status once it has ended
    ready_pipe,           \* what was written to the pipe the parent waits on, in order
    DNSBACKEND,           \* serve.rs DNSBACKEND: the published snapshot, None until set
    handles_v4,           \* serve.rs handles_v4: (network, ip) -> (shutdown_tx, handle)
    handles_v6,           \* serve.rs handles_v6
    nameservers,          \* serve.rs nameservers: the shared host upstream list
    last                  \* what the supervisor step that has just run did

supervisor == <<config_dir, resolv_file, pid_file, process, ready_pipe, DNSBACKEND,
                handles_v4, handles_v6, nameservers, last>>

vars == <<config, backend, filter_search_domain, no_proxy, network_name, resolv_conf,
          phase, query, sent, task, contacted, call, supervisor>>

\* what a listener reads and never writes, the supervisor's state included
env == <<config, backend, filter_search_domain, no_proxy, network_name, resolv_conf, supervisor>>

engine == <<phase, query, sent, task, contacted>>

NoCall == [op |-> "none"]

\* no supervisor step has just run
NoRun ==
    [ kind |-> "none", parsed |-> FALSE, listen_ip_v4 |-> EmptyMap, listen_ip_v6 |-> EmptyMap,
      before_backend |-> None, before_v4 |-> EmptyMap, before_v6 |-> EmptyMap,
      before_ns |-> << >>, read |-> "none", read_file |-> None,
      trace_v4 |-> << >>, trace_v6 |-> << >>, bind_errors |-> 0,
      bound_v4 |-> {}, bound_v6 |-> {}, failed_v4 |-> {}, failed_v6 |-> {},
      pid_removed |-> "none", result |-> "none" ]

\* the child has not been forked
SupervisorIdle ==
    /\ config_dir = None
    /\ resolv_file = None
    /\ pid_file = FALSE
    /\ process = "none"
    /\ ready_pipe = << >>
    /\ DNSBACKEND = None
    /\ handles_v4 = EmptyMap
    /\ handles_v6 = EmptyMap
    /\ nameservers = << >>
    /\ last = NoRun

\* CoreDns::new for a listener of a parsed configuration
Init ==
    /\ \E dir \in Dirs, fsd \in FilterSearchDomains :
         \E parsed \in ParseConfigs(dir, fsd) :
            /\ config = dir
            /\ backend = parsed.backend
            /\ filter_search_domain = fsd
            /\ network_name \in (DOMAIN parsed.listen_ip_v4) \cup (DOMAIN parsed.listen_ip_v6)
    /\ no_proxy \in BOOLEAN
    /\ resolv_conf \in HostLists
    /\ phase = "idle"
    /\ query = None
    /\ sent = << >>
    /\ task = NoTask
    /\ contacted = << >>
    /\ call = NoCall
    /\ SupervisorIdle

(***************************************************************************)
(* The listener loop and the forwarder task                                *)
(***************************************************************************)
\* a datagram that parse_dns_msg rejects is ignored
ReceiveMalformed ==
    /\ phase = "idle"
    /\ phase' = "dropped"
    /\ query' = None
    /\ sent' = << >>
    /\ task' = NoTask
    /\ contacted' = << >>
    /\ UNCHANGED <<env, call>>

\* a datagram that parses: lines 128-352
Receive(src, r) ==
    /\ phase = "idle"
    /\ \E h \in {HandleQuery(backend, network_name, filter_search_domain, no_proxy, resolv_conf, src, r)} :
           /\ sent' = h.sent
           /\ task' = h.task
           /\ phase' = IF h.task.active THEN "forwarding" ELSE "handled"
    /\ query' = Some([src_address |-> src, req |-> r])
    /\ contacted' = << >>
    /\ UNCHANGED <<env, call>>

\* lines 333-349, one iteration: the connection to the resolver fails
ForwardConnectFail ==
    /\ task.active
    /\ task.idx <= Len(task.nameservers)
    /\ task' = [task EXCEPT !.idx = @ + 1]
    /\ UNCHANGED <<env, phase, query, sent, contacted, call>>

\* one iteration: the query is sent and no response comes back
ForwardNoResponse ==
    /\ task.active
    /\ task.idx <= Len(task.nameservers)
    /\ contacted' = Append(contacted, [idx |-> task.idx, ns |-> task.nameservers[task.idx]])
    /\ task' = [task EXCEPT !.idx = @ + 1]
    /\ UNCHANGED <<env, phase, query, sent, call>>

\* ForwardResponse going on to the next resolver after relaying the answer
ForwardResponseNoBreak(response) ==
    /\ contacted' = Append(contacted, [idx |-> task.idx, ns |-> task.nameservers[task.idx]])
    /\ LET r == Reply(ForwardDnsReq(task.req.v, response))
       IN  IF r.some
           THEN sent' = Append(sent, [site |-> "forward", msg |-> r.v])
           ELSE UNCHANGED sent
    /\ task' = [task EXCEPT !.idx = @ + 1]
    /\ UNCHANGED <<env, phase, query, call>>

\* one iteration: the resolver answers; the answer is relayed and the loop left
ForwardResponse(response) ==
    /\ contacted' = Append(contacted, [idx |-> task.idx, ns |-> task.nameservers[task.idx]])
    /\ LET r == Reply(ForwardDnsReq(task.req.v, response))
       IN  IF r.some
           THEN /\ sent' = Append(sent, [site |-> "forward", msg |-> r.v])
                /\ task' = [task EXCEPT !.active = FALSE]
                /\ phase' = "forwarded"
           ELSE /\ task' = [task EXCEPT !.idx = @ + 1]
                /\ UNCHANGED <<sent, phase>>
    /\ UNCHANGED <<env, query, call>>

\* the list is exhausted: the task ends without a reply
ForwardEnd ==
    /\ task.active
    /\ task.idx > Len(task.nameservers)
    /\ task' = [task EXCEPT !.active = FALSE]
    /\ phase' = "forwarded"
    /\ UNCHANGED <<env, query, sent, contacted, call>>

\* the listener is back at its select; the forwarder, detached, has ended
NextDatagram ==
    /\ phase \in {"handled", "forwarded", "dropped"}
    /\ phase' = "idle"
    /\ query' = None
    /\ sent' = << >>
    /\ task' = NoTask
    /\ contacted' = << >>
    /\ UNCHANGED <<env, call>>

Next ==
    \/ ReceiveMalformed
    \/ \E src \in Requesters, r \in Requests : Receive(src, r)
    \/ ForwardConnectFail
    \/ ForwardNoResponse
    \/ /\ task.active
       /\ task.idx <= Len(task.nameservers)
       /\ \E response \in UpstreamResponses(task.req.v) : ForwardResponse(response)
    \/ ForwardEnd
    \/ NextDatagram

Spec == Init /\ [][Next]_vars

(***************************************************************************)
(* The backend's operations called on their own                            *)
(***************************************************************************)
CallLookup(requester, net, entry) ==
    /\ call' = [op |-> "lookup", requester |-> requester, network_name |-> net, entry |-> entry,
                result |-> Lookup(backend, requester, net, entry)]
    /\ UNCHANGED <<env, engine>>

CallReverseLookup(requester, lookup_ip) ==
    /\ call' = [op |-> "reverse_lookup", requester |-> requester, lookup_ip |-> lookup_ip,
                result |-> ReverseLookup(backend, requester, lookup_ip)]
    /\ UNCHANGED <<env, engine>>

CallCtrIsInternal(requester) ==
    /\ call' = [op |-> "ctr_is_internal", requester |-> requester,
                result |-> CtrIsInternal(backend, requester)]
    /\ UNCHANGED <<env, engine>>

CallGetNetworkScopedResolvers(requester) ==
    /\ call' = [op |-> "get_network_scoped_resolvers", requester |-> requester,
                result |-> GetNetworkScopedResolvers(backend, requester)]
    /\ UNCHANGED <<env, engine>>

NextBackend ==
    \/ \E r \in LookupRequesters, n \in FallbackNetworks, e \in LookupEntries : CallLookup(r, n, e)
    \/ \E r \in LookupRequesters, ip \in LookupRequesters : CallReverseLookup(r, ip)
    \/ \E r \in LookupRequesters : CallCtrIsInternal(r)
    \/ \E r \in LookupRequesters : CallGetNetworkScopedResolvers(r)

\* a snapshot of a parsed configuration, no listener running
InitBackend ==
    /\ \E dir \in BackendDirs, fsd \in BackendSearchDomains :
         \E parsed \in ParseConfigs(dir, fsd) :
            /\ config = dir
            /\ backend = parsed.backend
            /\ filter_search_domain = fsd
    /\ no_proxy = FALSE
    /\ network_name = << >>
    /\ resolv_conf = << >>
    /\ phase = "idle"
    /\ query = None
    /\ sent = << >>
    /\ task = NoTask
    /\ contacted = << >>
    /\ call = NoCall
    /\ SupervisorIdle

SpecBackend == InitBackend /\ [][NextBackend]_vars

(***************************************************************************)
(* The supervisor (src/server/serve.rs) and the forked child that runs it  *)
(* (src/commands/run.rs)                                                   *)
(***************************************************************************)

\* an empty config directory
ServeNone == << >>

\* network n1 listening on GW1
ServeOne ==
    << ConfigFile(N1, <<GW1>>, << >>,
          << CtrEntry(C1ID, Some(<<IPA>>), None, << <<"a">> >>, None) >>) >>

\* n1 as before, and a dual-stack network n2
ServeTwo ==
    << ConfigFile(N1, <<GW1>>, << >>,
          << CtrEntry(C1ID, Some(<<IPA>>), None, << <<"a">> >>, None) >>),
       ConfigFile(N2, <<GW2, GW6>>, <<DNS1>>, << >>) >>

\* n1 as before; the v4 listen address of n2 is now that of n3, and n2 names
\* the listen address of n1
ServeMoved ==
    << ConfigFile(N1, <<GW1>>, << >>,
          << CtrEntry(C1ID, Some(<<IPA>>), None, << <<"a">> >>, None) >>),
       ConfigFile(N2, <<GW1>>, << >>, << >>),
       ConfigFile(N3, <<GW2>>, << >>, << >>) >>

ServeDirs == {None, Some(ServeNone), Some(ServeOne), Some(ServeTwo), Some(ServeMoved)}

\* one nameserver among lines that name none
ResolvOne ==
    ResolvFile("search x\nnameserver\nnameserver fe80:0:0:0:0:0:0:1%lo ; z\noptions nameserver 1.1.1.1\n")

\* four nameservers
ResolvFour ==
    ResolvFile("nameserver 1.1.1.1\nnameserver 1.1.1.2\n# c\nnameserver 1.1.1.3\nnameserver 1.1.1.4")

\* a nameserver line whose address does not parse
ResolvBad == ResolvFile("nameserver 1.1.1.1\nnameserver abc\n")

ResolvFiles == {None, Some(ResolvOne), Some(ResolvFour), Some(ResolvBad)}

\* the addresses on which the system refuses a bind, whoever asks
BindFailures ==
    { [udp |-> {}, tcp |-> {}], [udp |-> {GW1}, tcp |-> {}], [udp |-> {}, tcp |-> {GW2}],
      [udp |-> {GW6}, tcp |-> {}] }

ServeSearchDomain == <<".","p">>

Without(m, keys) == [k \in (DOMAIN m) \ keys |-> m[k]]

\* a registry entry: the sender of the shutdown channel and the task's handle
Listener == [shutdown_tx |-> "open", handle |-> "running"]

Event(ev, key, ok) == [ev |-> ev, key |-> key, ok |-> ok]

\* stop_threads for the keys in the order given: every sender is dropped,
\* then every handle is awaited
StopThreadsIn(thread_handles, to_shut_down) ==
    [ thread_handles |-> Without(thread_handles, Range(to_shut_down)),
      trace |-> [i \in 1..Len(to_shut_down) |-> Event("close", to_shut_down[i], TRUE)]
                \o [i \in 1..Len(to_shut_down) |-> Event("join", to_shut_down[i], TRUE)] ]

\* stop_threads(handles, None): every key, in the order the map yields them
StopThreads(thread_handles) ==
    {StopThreadsIn(thread_handles, o) : o \in Orders(DOMAIN thread_handles)}

ExpectedThreads(listen_ips) ==
    UNION {{<<n, ip>> : ip \in Range(listen_ips[n])} : n \in DOMAIN listen_ips}

\* the identities of which a bind failed in the trace
FailedBinds(trace) ==
    {trace[i].key : i \in {j \in 1..Len(trace) :
                              trace[j].ev \in {"bind_udp", "bind_tcp"} /\ ~trace[j].ok}}

RECURSIVE StartThreadsStopAtError(_, _, _)
\* StartThreads giving up at the first bind that fails
StartThreadsStopAtError(to_start, fail, acc) ==
    IF Len(to_start) = 0 THEN acc
    ELSE LET key == to_start[1]
             in_use == \E k \in DOMAIN acc.thread_handles :
                          k[2] = key[2] /\ acc.thread_handles[k].handle = "running"
             udp_ok == ~in_use /\ key[2] \notin fail.udp
             tcp_ok == ~in_use /\ key[2] \notin fail.tcp
         IN  IF ~udp_ok
             THEN [acc EXCEPT !.trace = Append(@, Event("bind_udp", key, FALSE)),
                              !.errors = @ + 1]
             ELSE IF ~tcp_ok
             THEN [acc EXCEPT !.trace = @ \o << Event("bind_udp", key, TRUE),
                                               Event("bind_tcp", key, FALSE) >>,
                              !.errors = @ + 1]
             ELSE StartThreadsStopAtError(Tail(to_start), fail,
                     [acc EXCEPT !.trace = @ \o << Event("bind_udp", key, TRUE),
                                                  Event("bind_tcp", key, TRUE),
                                                  Event("spawn", key, TRUE) >>,
                                 !.bound = @ \cup {<<key, "udp">>, <<key, "tcp">>},
                                 !.thread_handles = Put(@, key, Listener)])

RECURSIVE StartThreads(_, _, _)
\* lines 177-218: the loop over to_start; a bind fails when the system
\* refuses it or when a running listener holds the address.  acc.bound are
\* the sockets bound so far and still held: the UDP socket of an identity
\* whose TCP bind fails is dropped at the `continue`
StartThreads(to_start, fail, acc) ==
    IF Len(to_start) = 0 THEN acc
    ELSE LET key == to_start[1]
             in_use == \E k \in DOMAIN acc.thread_handles :
                          k[2] = key[2] /\ acc.thread_handles[k].handle = "running"
             udp_ok == ~in_use /\ key[2] \notin fail.udp
             tcp_ok == ~in_use /\ key[2] \notin fail.tcp
             next ==
                IF ~udp_ok
                THEN [acc EXCEPT !.trace = Append(@, Event("bind_udp", key, FALSE)),
                                 !.errors = @ + 1]
                ELSE IF ~tcp_ok
                THEN [acc EXCEPT !.trace = @ \o << Event("bind_udp", key, TRUE),
                                                  Event("bind_tcp", key, FALSE) >>,
                                 !.errors = @ + 1]
                ELSE [acc EXCEPT !.trace = @ \o << Event("bind_udp", key, TRUE),
                                                  Event("bind_tcp", key, TRUE),
                                                  Event("spawn", key, TRUE) >>,
                                 !.bound = @ \cup {<<key, "udp">>, <<key, "tcp">>},
                                 !.thread_handles = Put(@, key, Listener)]
         IN  StartThreads(Tail(to_start), fail, next)

\* StopAndStartThreads stopping every registered listener, planned or not
StopAndStartThreadsStopAll(listen_ips, thread_handles, fail) ==
    LET expected == ExpectedThreads(listen_ips)
        to_shut_down == DOMAIN thread_handles
    IN  UNION { LET stopped == StopThreadsIn(thread_handles, so)
                    to_start == {k \in expected : k \notin DOMAIN stopped.thread_handles}
                IN  { StartThreads(st, fail, [thread_handles |-> stopped.thread_handles,
                                              trace |-> stopped.trace, errors |-> 0,
                                              bound |-> {}]) :
                        st \in Orders(to_start) } :
                so \in Orders(to_shut_down) }

\* StopAndStartThreads binding the new listeners before it stops the old ones
StopAndStartThreadsStartFirst(listen_ips, thread_handles, fail) ==
    LET expected == ExpectedThreads(listen_ips)
        to_shut_down == {k \in DOMAIN thread_handles : k \notin expected}
        to_start == {k \in expected : k \notin DOMAIN thread_handles}
    IN  UNION { LET started == StartThreads(st, fail, [thread_handles |-> thread_handles,
                                                       trace |-> << >>, errors |-> 0,
                                                       bound |-> {}])
                IN  { LET stopped == StopThreadsIn(started.thread_handles, so)
                      IN  [thread_handles |-> stopped.thread_handles,
                           trace |-> started.trace \o stopped.trace,
                           errors |-> started.errors, bound |-> started.bound] :
                        so \in Orders(to_shut_down) } :
                st \in Orders(to_start) }

\* StopAndStartThreads stopping, and so starting anew, the registered
\* listeners whose task has ended
StopAndStartThreadsRestartEnded(listen_ips, thread_handles, fail) ==
    LET expected == ExpectedThreads(listen_ips)
        to_shut_down == {k \in DOMAIN thread_handles :
                            k \notin expected \/ thread_handles[k].handle = "finished"}
    IN  UNION { LET stopped == StopThreadsIn(thread_handles, so)
                    to_start == {k \in expected : k \notin DOMAIN stopped.thread_handles}
                IN  { StartThreads(st, fail, [thread_handles |-> stopped.thread_handles,
                                              trace |-> stopped.trace, errors |-> 0,
                                              bound |-> {}]) :
                        st \in Orders(to_start) } :
                so \in Orders(to_shut_down) }

\* stop_and_start_threads: every outcome, over the orders in which the
\* registry and the set of expected identities are iterated
StopAndStartThreads(listen_ips, thread_handles, fail) ==
    LET expected == ExpectedThreads(listen_ips)
        to_shut_down == {k \in DOMAIN thread_handles : k \notin expected}
    IN  UNION { LET stopped == StopThreadsIn(thread_handles, so)
                    to_start == {k \in expected : k \notin DOMAIN stopped.thread_handles}
                IN  { StartThreads(st, fail, [thread_handles |-> stopped.thread_handles,
                                              trace |-> stopped.trace, errors |-> 0,
                                              bound |-> {}]) :
                        st \in Orders(to_start) } :
                so \in Orders(to_shut_down) }

\* what read_config_and_spawn starts from
RunStart(kind) ==
    [NoRun EXCEPT !.kind = kind, !.before_backend = DNSBACKEND, !.before_v4 = handles_v4,
                  !.before_v6 = handles_v6, !.before_ns = nameservers,
                  !.failed_v4 = FailedBinds(last.trace_v4),
                  !.failed_v6 = FailedBinds(last.trace_v6)]

Shared ==
    [ DNSBACKEND |-> DNSBACKEND, handles_v4 |-> handles_v4, handles_v6 |-> handles_v6,
      nameservers |-> nameservers, pid_file |-> pid_file ]

\* StopServer ending the process without stopping the listeners
StopServerNoStop(kind, parsed) ==
    IF ~pid_file
    THEN { [ shared |-> [Shared EXCEPT !.DNSBACKEND = Some(parsed.backend)],
             last |-> [RunStart(kind) EXCEPT !.parsed = TRUE, !.pid_removed = "failed",
                                             !.result = "exit1"] ] }
    ELSE { [ shared |-> [Shared EXCEPT !.DNSBACKEND = Some(parsed.backend),
                                       !.pid_file = FALSE],
             last |-> [RunStart(kind) EXCEPT !.parsed = TRUE, !.pid_removed = "ok",
                                             !.result = "exit0"] ] }

\* lines 304-319: no listen address at all
StopServer(kind, parsed) ==
    IF ~pid_file
    THEN { [ shared |-> [Shared EXCEPT !.DNSBACKEND = Some(parsed.backend)],
             last |-> [RunStart(kind) EXCEPT !.parsed = TRUE, !.pid_removed = "failed",
                                             !.result = "exit1"] ] }
    ELSE { [ shared |-> [Shared EXCEPT !.DNSBACKEND = Some(parsed.backend),
                                       !.handles_v4 = s4.thread_handles,
                                       !.handles_v6 = s6.thread_handles,
                                       !.pid_file = FALSE],
             last |-> [RunStart(kind) EXCEPT !.parsed = TRUE, !.pid_removed = "ok",
                                             !.trace_v4 = s4.trace, !.trace_v6 = s6.trace,
                                             !.result = "exit0"] ] :
             s4 \in StopThreads(handles_v4), s6 \in StopThreads(handles_v6) }

\* Reconcile publishing the new snapshot only when no bind fails
ReconcilePublishOnSuccess(kind, parsed) ==
    LET up == GetUpstreamResolvers(resolv_file)
    IN  UNION {
          { [ shared |-> [Shared EXCEPT !.DNSBACKEND = IF r4.errors + r6.errors = 0
                                                      THEN Some(parsed.backend) ELSE DNSBACKEND,
                                        !.nameservers = IF up.ok THEN up.v ELSE << >>,
                                        !.handles_v4 = r4.thread_handles,
                                        !.handles_v6 = r6.thread_handles],
              last |-> [RunStart(kind) EXCEPT
                          !.parsed = TRUE,
                          !.listen_ip_v4 = parsed.listen_ip_v4,
                          !.listen_ip_v6 = parsed.listen_ip_v6,
                          !.read = IF up.ok THEN "ok" ELSE "failed",
                          !.read_file = resolv_file,
                          !.trace_v4 = r4.trace, !.trace_v6 = r6.trace,
                          !.bound_v4 = r4.bound, !.bound_v6 = r6.bound,
                          !.bind_errors = r4.errors + r6.errors,
                          !.result = IF up.ok /\ r4.errors + r6.errors = 0
                                     THEN "ok" ELSE "err"] ] :
              r4 \in StopAndStartThreads(parsed.listen_ip_v4, handles_v4, fail),
              r6 \in StopAndStartThreads(parsed.listen_ip_v6, handles_v6, fail) } :
          fail \in BindFailures }

\* lines 321-371: the host resolvers, then one reconcile per family
Reconcile(kind, parsed) ==
    LET up == GetUpstreamResolvers(resolv_file)
    IN  UNION {
          { [ shared |-> [Shared EXCEPT !.DNSBACKEND = Some(parsed.backend),
                                        !.nameservers = IF up.ok THEN up.v ELSE << >>,
                                        !.handles_v4 = r4.thread_handles,
                                        !.handles_v6 = r6.thread_handles],
              last |-> [RunStart(kind) EXCEPT
                          !.parsed = TRUE,
                          !.listen_ip_v4 = parsed.listen_ip_v4,
                          !.listen_ip_v6 = parsed.listen_ip_v6,
                          !.read = IF up.ok THEN "ok" ELSE "failed",
                          !.read_file = resolv_file,
                          !.trace_v4 = r4.trace, !.trace_v6 = r6.trace,
                          !.bound_v4 = r4.bound, !.bound_v6 = r6.bound,
                          !.bind_errors = r4.errors + r6.errors,
                          !.result = IF up.ok /\ r4.errors + r6.errors = 0
                                     THEN "ok" ELSE "err"] ] :
              r4 \in StopAndStartThreads(parsed.listen_ip_v4, handles_v4, fail),
              r6 \in StopAndStartThreads(parsed.listen_ip_v6, handles_v6, fail) } :
          fail \in BindFailures }

\* read_config_and_spawn: every outcome, as the new shared state and the
\* record of what was done
ReadConfigAndSpawn(kind) ==
    IF ~config_dir.some
    THEN { [shared |-> Shared, last |-> [RunStart(kind) EXCEPT !.result = "err"]] }
    ELSE UNION { IF parsed.listen_ip_v4 = EmptyMap /\ parsed.listen_ip_v6 = EmptyMap
                 THEN StopServer(kind, parsed)
                 ELSE Reconcile(kind, parsed) :
                 parsed \in ParseConfigs(config_dir.v, filter_search_domain) }

Publish(out) ==
    /\ DNSBACKEND' = out.shared.DNSBACKEND
    /\ handles_v4' = out.shared.handles_v4
    /\ handles_v6' = out.shared.handles_v6
    /\ nameservers' = out.shared.nameservers
    /\ pid_file' = out.shared.pid_file
    /\ last' = out.last

listener == <<config, backend, filter_search_domain, no_proxy, network_name, resolv_conf,
              engine, call>>

\* run.rs, the child after the fork: the PID file, then the word on the pipe
ChildStart ==
    /\ process = "forked"
    /\ IF config_dir.some
       THEN /\ pid_file' = TRUE
            /\ ready_pipe' = Append(ready_pipe, "ready")
            /\ process' = "created"
            /\ last' = [NoRun EXCEPT !.kind = "child", !.result = "ok"]
       ELSE /\ process' = "failed"
            /\ last' = [NoRun EXCEPT !.kind = "child", !.result = "err"]
            /\ UNCHANGED <<pid_file, ready_pipe>>
    /\ UNCHANGED <<listener, config_dir, resolv_file, DNSBACKEND, handles_v4, handles_v6,
                   nameservers>>

\* serve, up to the event loop
ServeStartup ==
    /\ process = "created"
    /\ \E out \in ReadConfigAndSpawn("startup") :
         /\ Publish(out)
         /\ process' = CASE out.last.result = "ok" -> "serving"
                         [] out.last.result = "err" -> "failed"
                         [] out.last.result = "exit0" -> "exit0"
                         [] out.last.result = "exit1" -> "exit1"
         /\ ready_pipe' = IF out.last.result = "ok" THEN Append(ready_pipe, "1") ELSE ready_pipe
    /\ UNCHANGED <<listener, config_dir, resolv_file>>

\* Reload ending the process when the reload fails
ReloadExitOnError ==
    /\ process = "serving"
    /\ \E out \in ReadConfigAndSpawn("reload") :
         /\ Publish(out)
         /\ process' = CASE out.last.result = "ok" -> "serving"
                         [] out.last.result = "err" -> "failed"
                         [] out.last.result = "exit0" -> "exit0"
                         [] out.last.result = "exit1" -> "exit1"
    /\ UNCHANGED <<listener, config_dir, resolv_file, ready_pipe>>

\* the event loop on SIGHUP
Reload ==
    /\ process = "serving"
    /\ \E out \in ReadConfigAndSpawn("reload") :
         /\ Publish(out)
         /\ process' = CASE out.last.result \in {"ok", "err"} -> "serving"
                         [] out.last.result = "exit0" -> "exit0"
                         [] out.last.result = "exit1" -> "exit1"
    /\ UNCHANGED <<listener, config_dir, resolv_file, ready_pipe>>

\* the event loop on a change of the resolver file
ResolvEvent ==
    /\ process = "serving"
    /\ LET up == GetUpstreamResolvers(resolv_file)
       IN  /\ nameservers' = IF up.ok THEN up.v ELSE nameservers
           /\ last' = [NoRun EXCEPT !.kind = "resolv", !.before_ns = nameservers,
                                    !.read = IF up.ok THEN "ok" ELSE "failed",
                                    !.read_file = resolv_file,
                                    !.result = IF up.ok THEN "ok" ELSE "err"]
    /\ UNCHANGED <<listener, config_dir, resolv_file, pid_file, process, ready_pipe,
                   DNSBACKEND, handles_v4, handles_v6>>

\* a listener task returns on its own; its entry stays in the registry
ListenerEnds ==
    /\ process = "serving"
    /\ \/ \E k \in DOMAIN handles_v4 :
            /\ handles_v4[k].handle = "running"
            /\ handles_v4' = [handles_v4 EXCEPT ![k].handle = "finished"]
            /\ UNCHANGED handles_v6
       \/ \E k \in DOMAIN handles_v6 :
            /\ handles_v6[k].handle = "running"
            /\ handles_v6' = [handles_v6 EXCEPT ![k].handle = "finished"]
            /\ UNCHANGED handles_v4
    /\ last' = NoRun
    /\ UNCHANGED <<listener, config_dir, resolv_file, pid_file, process, ready_pipe,
                   DNSBACKEND, nameservers>>

\* the config directory is rewritten, or removed with all that is in it
ConfigChanged(dir) ==
    /\ process \in {"created", "serving"}
    /\ dir # config_dir
    /\ config_dir' = dir
    /\ pid_file' = (dir.some /\ pid_file)
    /\ last' = NoRun
    /\ UNCHANGED <<listener, resolv_file, process, ready_pipe, DNSBACKEND, handles_v4,
                   handles_v6, nameservers>>

\* the resolver file is rewritten or made unreadable
ResolvConfWritten(file) ==
    /\ process = "serving"
    /\ file # resolv_file
    /\ resolv_file' = file
    /\ last' = NoRun
    /\ UNCHANGED <<listener, config_dir, pid_file, process, ready_pipe, DNSBACKEND,
                   handles_v4, handles_v6, nameservers>>

\* somebody removes the PID file
PidFileRemoved ==
    /\ process = "serving"
    /\ pid_file
    /\ pid_file' = FALSE
    /\ last' = NoRun
    /\ UNCHANGED <<listener, config_dir, resolv_file, process, ready_pipe, DNSBACKEND,
                   handles_v4, handles_v6, nameservers>>

NextServe ==
    \/ ChildStart
    \/ ServeStartup
    \/ Reload
    \/ ResolvEvent
    \/ ListenerEnds
    \/ \E dir \in ServeDirs : ConfigChanged(dir)
    \/ \E file \in ResolvFiles : ResolvConfWritten(file)
    \/ PidFileRemoved

\* the child just after the fork
InitServe ==
    /\ config = << >>
    /\ backend = None
    /\ filter_search_domain = ServeSearchDomain
    /\ no_proxy = FALSE
    /\ network_name = << >>
    /\ resolv_conf = << >>
    /\ phase = "idle"
    /\ query = None
    /\ sent = << >>
    /\ task = NoTask
    /\ contacted = << >>
    /\ call = NoCall
    /\ config_dir \in ServeDirs
    /\ resolv_file \in ResolvFiles
    /\ pid_file = FALSE
    /\ process = "forked"
    /\ ready_pipe = << >>
    /\ DNSBACKEND = None
    /\ handles_v4 = EmptyMap
    /\ handles_v6 = EmptyMap
    /\ nameservers = << >>
    /\ last = NoRun

SpecServe == InitServe /\ [][NextServe]_vars

(***************************************************************************)
(* A listener that survives reloads: the snapshot it reads (CoreDns.backend)*)
(* and the snapshot the supervisor publishes (DNSBACKEND)                  *)
(***************************************************************************)
\* directories that all name the listen address 10.0.0.1 of network n1
SnapshotDirs == {DirTwoNets, DirSharedIp, DirSharedName}

\* the queries sent to the surviving listener
SnapshotRequests ==
    {r \in Requests : r.encodable /\ ~r.recursion_desired /\ r.query.query_type \in {"A", "PTR"}}

\* coredns.rs lines 141, 148, 209, 229: the reads of the backend made for one
\* query, in the order of the code
ReadSites == << "ctr_dns_server", "get_network_scoped_resolvers", "reverse_lookup", "lookup" >>

\* serve has started: the n1 listener on 10.0.0.1 was created with the
\* snapshot of the startup parse, which is also the published one
InitSnapshot ==
    /\ \E dir \in SnapshotDirs : \E parsed \in ParseConfigs(dir, ServeSearchDomain) :
          /\ config = dir
          /\ config_dir = Some(dir)
          /\ backend = parsed.backend
          /\ DNSBACKEND = Some(parsed.backend)
    /\ filter_search_domain = ServeSearchDomain
    /\ no_proxy = FALSE
    /\ network_name = N1
    /\ resolv_conf = << >>
    /\ phase = "idle"
    /\ query = None
    /\ sent = << >>
    /\ task = NoTask
    /\ contacted = << >>
    /\ call = NoCall
    /\ resolv_file = None
    /\ pid_file = TRUE
    /\ process = "serving"
    /\ ready_pipe = << >>
    /\ handles_v4 = Put(EmptyMap, <<N1, GW1>>, Listener)
    /\ handles_v6 = EmptyMap
    /\ nameservers = << >>
    /\ last = NoRun

\* coredns.rs lines 117-137: a datagram arrives and parses
Arrive(src, r) ==
    /\ phase = "idle"
    /\ phase' = "reading"
    /\ query' = Some([src_address |-> src, req |-> r])
    /\ call' = [op |-> "query", reads |-> << >>, published |-> {DNSBACKEND.v}]
    /\ UNCHANGED <<env, sent, task, contacted>>

\* one read of the backend: every site reads the field self.backend, the
\* Arc<DNSBackend> the listener was constructed with (coredns.rs lines 29, 88)
BackendRead ==
    /\ phase = "reading"
    /\ Len(call.reads) < Len(ReadSites)
    /\ call' = [call EXCEPT !.reads =
                   Append(@, [site |-> ReadSites[Len(call.reads) + 1], snapshot |-> backend])]
    /\ UNCHANGED <<env, engine>>

\* the reads are done: the query is answered or handed on
QueryDone ==
    /\ phase = "reading"
    /\ Len(call.reads) = Len(ReadSites)
    /\ phase' = "handled"
    /\ UNCHANGED <<env, query, sent, task, contacted, call>>

\* the listener is back at its select
QueryNext ==
    /\ phase = "handled"
    /\ phase' = "idle"
    /\ query' = None
    /\ call' = NoCall
    /\ UNCHANGED <<env, sent, task, contacted>>

\* serve.rs lines 286-298, a reload whose plan keeps the listener: the new
\* snapshot is stored in DNSBACKEND; the listener and its fields stay
ReloadPublish(dir) ==
    /\ \E parsed \in ParseConfigs(dir, filter_search_domain) :
          /\ HasKey(parsed.listen_ip_v4, N1)
          /\ SeqContains(parsed.listen_ip_v4[N1], GW1)
          /\ DNSBACKEND' = Some(parsed.backend)
          /\ call' = IF call.op = "query"
                     THEN [call EXCEPT !.published = @ \cup {parsed.backend}]
                     ELSE call
    /\ config_dir' = Some(dir)
    /\ UNCHANGED <<config, backend, filter_search_domain, no_proxy, network_name, resolv_conf,
                   engine, resolv_file, pid_file, process, ready_pipe, handles_v4, handles_v6,
                   nameservers, last>>

NextSnapshot ==
    \/ \E src \in {IPA, HOSTIP}, r \in SnapshotRequests : Arrive(src, r)
    \/ BackendRead
    \/ QueryDone
    \/ QueryNext
    \/ \E dir \in SnapshotDirs : ReloadPublish(dir)

SpecSnapshot == InitSnapshot /\ [][NextSnapshot]_vars

(***************************************************************************)
(* stop_threads and the listener tasks it waits for, step by step          *)
(***************************************************************************)
\* the listeners running when stop_threads is called
StopKeys == {<<N1, GW1>>, <<N2, GW2>>}

\* the orders in which stop_threads may be handed keys: a filter list, or
\* every key of the registry in the order the map yields them
StopLists == UNION {Orders(ks) : ks \in (SUBSET StopKeys) \ {{}}}

\* every listener is at its select, no stop_threads call is in progress
InitStop ==
    /\ \E parsed \in ParseConfigs(ServeTwo, ServeSearchDomain) :
          /\ backend = parsed.backend
          /\ DNSBACKEND = Some(parsed.backend)
    /\ config = ServeTwo
    /\ config_dir = Some(ServeTwo)
    /\ filter_search_domain = ServeSearchDomain
    /\ no_proxy = FALSE
    /\ network_name = N1
    /\ resolv_conf = << >>
    /\ phase = [k \in StopKeys |-> "idle"]
    /\ query = None
    /\ sent = << >>
    /\ task = NoTask
    /\ contacted = << >>
    /\ call = NoCall
    /\ resolv_file = None
    /\ pid_file = TRUE
    /\ process = "serving"
    /\ ready_pipe = << >>
    /\ handles_v4 = [k \in StopKeys |-> Listener]
    /\ handles_v6 = EmptyMap
    /\ nameservers = << >>
    /\ last = NoRun

\* the shutdown sender of the listener has been dropped
Closed(k) ==
    /\ last.kind = "stop_threads"
    /\ \E i \in 1..Len(last.handles) : last.handles[i].key = k /\ last.handles[i].tx = "dropped"

\* serve.rs lines 236-239: stop_threads is entered with the keys to stop
StopThreadsCalled(to_shut_down) ==
    /\ last.kind = "none"
    /\ Range(to_shut_down) \subseteq DOMAIN handles_v4
    /\ last' = [kind |-> "stop_threads", to_shut_down |-> to_shut_down, handles |-> << >>,
                joined |-> 0, returned |-> FALSE]
    /\ UNCHANGED <<listener, config_dir, resolv_file, pid_file, process, ready_pipe, DNSBACKEND,
                   handles_v4, handles_v6, nameservers>>

\* StopThreadsDrop keeping the sender alive next to the handle
StopThreadsDropKeepSender ==
    /\ last.kind = "stop_threads"
    /\ Len(last.to_shut_down) > 0
    /\ handles_v4' = Without(handles_v4, {last.to_shut_down[1]})
    /\ last' = [last EXCEPT !.to_shut_down = Tail(@),
                            !.handles = Append(@, [key |-> last.to_shut_down[1], tx |-> "open"])]
    /\ UNCHANGED <<listener, config_dir, resolv_file, pid_file, process, ready_pipe, DNSBACKEND,
                   handles_v6, nameservers>>

\* serve.rs lines 241-245, one iteration: the entry leaves the registry, the
\* handle is kept and the sender dropped
StopThreadsDrop ==
    /\ last.kind = "stop_threads"
    /\ Len(last.to_shut_down) > 0
    /\ handles_v4' = Without(handles_v4, {last.to_shut_down[1]})
    /\ last' = [last EXCEPT !.to_shut_down = Tail(@),
                            !.handles = Append(@, [key |-> last.to_shut_down[1], tx |-> "dropped"])]
    /\ UNCHANGED <<listener, config_dir, resolv_file, pid_file, process, ready_pipe, DNSBACKEND,
                   handles_v6, nameservers>>

\* serve.rs lines 247-258, one iteration: the awaited task has ended
StopThreadsJoin ==
    /\ last.kind = "stop_threads"
    /\ Len(last.to_shut_down) = 0
    /\ last.joined < Len(last.handles)
    /\ phase[last.handles[last.joined + 1].key] = "ended"
    /\ last' = [last EXCEPT !.joined = @ + 1]
    /\ UNCHANGED <<listener, config_dir, resolv_file, pid_file, process, ready_pipe, DNSBACKEND,
                   handles_v4, handles_v6, nameservers>>

\* serve.rs line 259: every handle has been awaited
StopThreadsReturn ==
    /\ last.kind = "stop_threads"
    /\ Len(last.to_shut_down) = 0
    /\ last.joined = Len(last.handles)
    /\ ~last.returned
    /\ last' = [last EXCEPT !.returned = TRUE]
    /\ UNCHANGED <<listener, config_dir, resolv_file, pid_file, process, ready_pipe, DNSBACKEND,
                   handles_v4, handles_v6, nameservers>>

\* coredns.rs lines 113-117: the select takes the datagram branch
SelectDatagram(k) ==
    /\ phase[k] = "idle"
    /\ phase' = [phase EXCEPT ![k] = "handling"]
    /\ UNCHANGED <<env, query, sent, task, contacted, call>>

\* coredns.rs lines 118-357: the datagram is dealt with, a forwarder is
\* spawned or not, and the task is back at its select
DatagramHandled(k, spawn) ==
    /\ phase[k] = "handling"
    /\ phase' = [phase EXCEPT ![k] = "idle"]
    /\ task' = IF spawn THEN [NoTask EXCEPT !.active = TRUE] ELSE task
    /\ UNCHANGED <<env, query, sent, contacted, call>>

\* coredns.rs lines 113-116: the select takes the shutdown branch, which is
\* ready once the sender is dropped; the loop is left and the task ends
SelectShutdown(k) ==
    /\ phase[k] = "idle"
    /\ Closed(k)
    /\ phase' = [phase EXCEPT ![k] = "ended"]
    /\ UNCHANGED <<env, query, sent, task, contacted, call>>

\* coredns.rs lines 331-350: a spawned forwarder comes to its end
ForwarderEnds ==
    /\ task.active
    /\ task' = NoTask
    /\ UNCHANGED <<env, phase, query, sent, contacted, call>>

NextStop ==
    \/ \E o \in StopLists : StopThreadsCalled(o)
    \/ StopThreadsDrop
    \/ StopThreadsJoin
    \/ StopThreadsReturn
    \/ \E k \in StopKeys : SelectDatagram(k)
    \/ \E k \in StopKeys, spawn \in BOOLEAN : DatagramHandled(k, spawn)
    \/ \E k \in StopKeys : SelectShutdown(k)
    \/ ForwarderEnds

SpecStop == InitStop /\ [][NextStop]_vars

\* stop_threads runs on; a task that handles a datagram comes back to its
\* select (the handling awaits nothing); tokio's select polls its branches in
\* random order, so a shutdown branch that is ready whenever the task is at
\* its select is taken in the end. Datagrams and forwarders owe nothing.
SpecStopFair ==
    /\ SpecStop
    /\ WF_vars(StopThreadsDrop)
    /\ WF_vars(StopThreadsJoin)
    /\ WF_vars(StopThreadsReturn)
    /\ \A k \in StopKeys :
          /\ WF_vars(\E spawn \in BOOLEAN : DatagramHandled(k, spawn))
          /\ SF_vars(SelectShutdown(k))

(***************************************************************************)
(* Properties                                                              *)
(***************************************************************************)
Handled == query.some /\ phase \in {"handled", "forwarding", "forwarded"}

Src == query.v.src_address

Req == query.v.req

ReqName == NameToString(query.v.req.query.name)

SentAt(site) == {i \in 1..Len(sent) : sent[i].site = site}

\* the query was handed to a forwarder task
Forwarded == task.req.some

\* the name ends with the search domain as configured or as the backend keeps it
EndsWithSearchDomain(name) ==
    EndsWith(name, filter_search_domain) \/ EndsWith(name, backend.search_domain)

\* addresses listed under the name in the name table of the network
Listed(b, net, name) ==
    IF HasKey(b.name_mappings, net) /\ HasKey(b.name_mappings[net], name)
    THEN Range(b.name_mappings[net][name])
    ELSE {}

LookupCalled == call.op = "lookup"

\* C1 as stated: every address Forward lookup returns is listed under the
\* normalized name in a network of ip_mappings[requester], for every requester.
C1_AsStated ==
    (LookupCalled /\ call.result.some) =>
        \A i \in 1..Len(call.result.v) :
            /\ HasKey(backend.ip_mappings, call.requester)
            /\ \E net \in Range(backend.ip_mappings[call.requester]) :
                   call.result.v[i] \in Listed(backend, net, NormalizeName(backend, call.entry))

\* C1 amended: for a requester in ip_mappings every returned address is listed
\* under the normalized name in one of the requester's networks; for a
\* requester not in ip_mappings it is listed under the normalized name in the
\* fallback network the caller passed.
C1_LookupWithinNetworks ==
    (LookupCalled /\ call.result.some) =>
        \A i \in 1..Len(call.result.v) :
            IF HasKey(backend.ip_mappings, call.requester)
            THEN \E net \in Range(backend.ip_mappings[call.requester]) :
                     call.result.v[i] \in Listed(backend, net, NormalizeName(backend, call.entry))
            ELSE call.result.v[i] \in
                     Listed(backend, call.network_name, NormalizeName(backend, call.entry))

\* a known requester got addresses while a network it is not on, passed as the
\* fallback, lists the same name with other addresses
C1_Witness ==
    /\ LookupCalled
    /\ call.result.some
    /\ HasKey(backend.ip_mappings, call.requester)
    /\ ~SeqContains(backend.ip_mappings[call.requester], call.network_name)
    /\ Listed(backend, call.network_name, NormalizeName(backend, call.entry)) # {}
    /\ Listed(backend, call.network_name, NormalizeName(backend, call.entry))
           \cap Range(call.result.v) = {}

\* C2: a query from a requester for which Is-internal holds is never handed
\* to a forwarder, no resolver is contacted, and unless it is answered locally
\* the reply is NXDOMAIN.
C2_InternalNeverForwarded ==
    (Handled /\ CtrIsInternal(backend, Src)) =>
        /\ ~Forwarded
        /\ contacted = << >>
        /\ (SentAt("local") = {} /\ SentAt("ptr") = {}) =>
               \E i \in SentAt("nx") : sent[i].msg.response_code = "NXDomain"

\* C3: a query not answered locally is forwarded iff no_proxy is unset, the
\* requester is not internal and the name does not end with the search
\* domain; otherwise the only reply is NXDOMAIN without answers and no
\* resolver is contacted.
C3_ForwardingGate ==
    (Handled /\ SentAt("local") = {} /\ SentAt("ptr") = {}) =>
        /\ Forwarded <=> (/\ ~no_proxy
                          /\ ~CtrIsInternal(backend, Src)
                          /\ ~EndsWithSearchDomain(ReqName))
        /\ ~Forwarded =>
              /\ Len(sent) = 1
              /\ sent[1].msg.response_code = "NXDomain"
              /\ sent[1].msg.answers = << >>
              /\ contacted = << >>

\* C4: a single-label name that does not end with the search domain, asked by
\* a requester that is not internal while no_proxy is unset and not answered
\* locally, is forwarded and not answered NXDOMAIN.
C4_SingleLabelForwarded ==
    (/\ Handled
     /\ CountChar(ReqName, ".") = 1
     /\ ~EndsWithSearchDomain(ReqName)
     /\ ~no_proxy
     /\ ~CtrIsInternal(backend, Src)
     /\ SentAt("local") = {}) =>
        /\ Forwarded
        /\ SentAt("nx") = {}

\* C5 as stated: every reply has the id of the request, is a Response, and
\* has recursion-available set when the request had recursion-desired set.
C5_AsStated ==
    Handled =>
        \A i \in 1..Len(sent) :
            /\ sent[i].msg.id = Req.id
            /\ sent[i].msg.message_type = "Response"
            /\ Req.recursion_desired => sent[i].msg.recursion_available

\* C5 amended: every reply has the id of the request and is a Response; a
\* reply built from the request (local answer or NXDOMAIN) has
\* recursion-available set when the request had recursion-desired set; a
\* forwarded reply has it set when the upstream response it relays carries
\* recursion-desired.
C5_ReplyHeader ==
    Handled =>
        \A i \in 1..Len(sent) :
            /\ sent[i].msg.id = Req.id
            /\ sent[i].msg.message_type = "Response"
            /\ IF sent[i].site = "forward"
               THEN sent[i].msg.recursion_desired => sent[i].msg.recursion_available
               ELSE Req.recursion_desired => sent[i].msg.recursion_available

\* a forwarded reply and a locally built reply to requests asking for recursion
C5_Witness ==
    /\ Handled
    /\ Req.recursion_desired
    /\ SentAt("forward") # {}
    /\ SentAt("ptr") # {}

\* C6: every locally synthesized A or AAAA answer has TTL 0, class IN and the
\* query name as owner, and there is one answer per address of the Forward
\* lookup result of the asked family.
C6_LocalAnswerRecords ==
    (Handled /\ Req.query.query_type \in {"A", "AAAA"}) =>
        \A i \in SentAt("local") :
            /\ \A k \in 1..Len(sent[i].msg.answers) :
                   /\ sent[i].msg.answers[k].ttl = 0
                   /\ sent[i].msg.answers[k].dns_class = "IN"
                   /\ sent[i].msg.answers[k].name = Req.query.name
            /\ LET res == Lookup(backend, Src, network_name, ReqName)
                   fam == IF res.some
                          THEN (IF Req.query.query_type = "A"
                                THEN SelectSeq(res.v, IsV4) ELSE SelectSeq(res.v, IsV6))
                          ELSE << >>
               IN  [k \in 1..Len(sent[i].msg.answers) |-> sent[i].msg.answers[k].data] = fam

\* C7: a PTR query whose address has a Reverse lookup result is answered with
\* one PTR record per name, in table order, each with TTL 0, class IN, the
\* reverse-query name as owner and the name made absolute as target.
C7_PtrAnswerRecords ==
    (Handled /\ Req.query.query_type = "PTR" /\ ParseIpAddr(PtrLookupIp(ReqName)).some
        /\ ReverseLookup(backend, Src, ParseIpAddr(PtrLookupIp(ReqName)).v).some) =>
        LET names == ReverseLookup(backend, Src, ParseIpAddr(PtrLookupIp(ReqName)).v).v
        IN  /\ SentAt("ptr") # {}
            /\ \A i \in SentAt("ptr") :
                 /\ Len(sent[i].msg.answers) = Len(names)
                 /\ \A k \in 1..Len(sent[i].msg.answers) :
                        /\ sent[i].msg.answers[k].ttl = 0
                        /\ sent[i].msg.answers[k].dns_class = "IN"
                        /\ sent[i].msg.answers[k].name = Req.query.name
                        /\ NameToString(sent[i].msg.answers[k].data) = Append(names[k], ".")

\* C8: the forwarder contacts the resolvers of its list in list order, one
\* per iteration; once a response has been relayed no later resolver is
\* contacted and the client has exactly that one forwarded reply.
C8_ResolversInOrder ==
    /\ \A k \in 1..Len(contacted) :
           /\ contacted[k].idx \in 1..Len(task.nameservers)
           /\ contacted[k].ns = task.nameservers[contacted[k].idx]
           /\ contacted[k].idx <= task.idx
           /\ k > 1 => contacted[k - 1].idx < contacted[k].idx
    /\ Cardinality(SentAt("forward")) <= 1
    /\ SentAt("forward") # {} =>
           /\ ~task.active
           /\ Len(contacted) > 0
           /\ contacted[Len(contacted)].idx = task.idx
    /\ (task.active /\ Len(contacted) > 0) => contacted[Len(contacted)].idx < task.idx

\* a first resolver gave nothing, a second one answered, and the list goes on
C8_Witness ==
    /\ phase = "forwarded"
    /\ SentAt("forward") # {}
    /\ Len(contacted) >= 2
    /\ task.idx < Len(task.nameservers)

\* the container-scoped resolvers of the requester, empty when it has none
CtrScoped(src) ==
    IF HasKey(backend.ctr_dns_server, src) /\ backend.ctr_dns_server[src].some
    THEN backend.ctr_dns_server[src].v
    ELSE << >>

\* the network-scoped resolvers of the requester, empty when it is unknown
NetScoped(src) ==
    IF GetNetworkScopedResolvers(backend, src).some
    THEN GetNetworkScopedResolvers(backend, src).v
    ELSE << >>

\* C9: the list a query is forwarded to is the requester's container-scoped
\* list if non-empty, else its network-scoped list if non-empty, else the
\* host list.
C9_ResolverPrecedence ==
    (Handled /\ Forwarded) =>
        task.nameservers =
            IF CtrScoped(Src) # << >> THEN CtrScoped(Src)
            ELSE IF NetScoped(Src) # << >> THEN NetScoped(Src)
            ELSE resolv_conf

\* a forwarded query of a requester that has container-scoped resolvers on a
\* network that has its own, with host resolvers configured as well
C9_Witness ==
    /\ Handled
    /\ Forwarded
    /\ CtrScoped(Src) # << >>
    /\ NetScoped(Src) # << >>
    /\ resolv_conf # << >>

\* C10: a query of a type other than A, AAAA and PTR gets no locally built
\* answer: it is either forwarded or answered NXDOMAIN.
C10_OtherTypesNotLocal ==
    (Handled /\ Req.query.query_type \notin {"A", "AAAA", "PTR"}) =>
        /\ SentAt("local") = {}
        /\ SentAt("ptr") = {}
        /\ Forwarded \/ SentAt("nx") # {}

(***************************************************************************)
(* Name normalisation of Forward lookup                                    *)
(***************************************************************************)
UpperChar(c) ==
    CASE c = "a" -> "A"
      [] c = "b" -> "B"
      [] c = "c" -> "C"
      [] c = "p" -> "P"
      [] c = "x" -> "X"
      [] OTHER -> c

\* the upper/lower-case forms of one character
CaseVariants(c) == {c, LowerChar(c), UpperChar(LowerChar(c))}

RECURSIVE Spellings(_)
\* every upper/lower-case spelling of a name
Spellings(s) ==
    IF Len(s) = 0 THEN {<< >>}
    ELSE {<<c>> \o t : c \in CaseVariants(s[1]), t \in Spellings(Tail(s))}

\* the same lookup made again with another entry
LookupAgain(entry) == Lookup(backend, call.requester, call.network_name, entry)

\* C11: Forward lookup gives the same result for every upper/lower-case
\* spelling of the name, for every snapshot, requester and fallback network.
C11_CaseInsensitive ==
    LookupCalled => \A e \in Spellings(call.entry) : LookupAgain(e) = call.result

\* a name with an upper-case letter was looked up and found
C11_Witness ==
    /\ LookupCalled
    /\ call.entry # ToLower(call.entry)
    /\ call.result.some
    /\ Cardinality(Spellings(call.entry)) > 1

C12_Applies(x) ==
    /\ backend.search_domain = ToLower(backend.search_domain)
    /\ \/ backend.search_domain = << >>
       \/ ~EndsWith(ToLower(x), backend.search_domain)

C13_AsStated ==
    LookupCalled => LookupAgain(call.entry \o <<".">>) = call.result

\* x has no final dot, and the dot does not complete the search domain
C13_Applies(x) ==
    /\ ~EndsWith(x, <<".">>)
    /\ \/ backend.search_domain = << >>
       \/ ~EndsWith(ToLower(x \o <<".">>), backend.search_domain)

\* C13 amended: when x does not end with a dot and x followed by a dot does
\* not end with the search domain, Forward lookup of x followed by a dot gives
\* the same result as Forward lookup of x.
C13_TrailingDotIdempotent ==
    (LookupCalled /\ C13_Applies(call.entry)) =>
        LookupAgain(call.entry \o <<".">>) = call.result

\* a name without a final dot was found, under a non-empty search domain
C13_Witness ==
    /\ LookupCalled
    /\ C13_Applies(call.entry)
    /\ backend.search_domain # << >>
    /\ call.result.some
    /\ LookupAgain(call.entry \o <<".">>) = call.result

(***************************************************************************)
(* Forward lookup for a requester that is not known                        *)
(***************************************************************************)
Known(requester) == HasKey(backend.ip_mappings, requester)

\* the list stored under the name in the name table of the network, if any
ListedSeq(net, name) ==
    IF HasKey(backend.name_mappings, net) /\ HasKey(backend.name_mappings[net], name)
    THEN backend.name_mappings[net][name]
    ELSE << >>

\* C14: for a requester that is not in ip_mappings, Forward lookup returns
\* exactly the addresses listed under the normalized name in the fallback
\* network passed by the caller, absence if there are none, and nothing of
\* any other network.
C14_FallbackNetworkOnly ==
    (LookupCalled /\ ~Known(call.requester)) =>
        LET here == ListedSeq(call.network_name, NormalizeName(backend, call.entry))
        IN  call.result = IF Len(here) = 0 THEN None ELSE Some(here)

\* an unknown requester got the addresses of the fallback network while
\* another network lists the same name with other addresses
C14_Witness ==
    /\ LookupCalled
    /\ ~Known(call.requester)
    /\ call.result.some
    /\ \E net \in DOMAIN backend.name_mappings :
          /\ net # call.network_name
          /\ Listed(backend, net, NormalizeName(backend, call.entry)) # {}
          /\ Listed(backend, net, NormalizeName(backend, call.entry)) \cap Range(call.result.v) = {}

\* C15: for a requester that is not in ip_mappings, served by a listener
\* whose network gives no fallback (it has no name table), Forward lookup is
\* absent for every name, Is-internal is false, and the query is forwarded
\* whenever no_proxy is unset and the name does not end with the search domain.
C15_UnknownRequesterForwarded ==
    (Handled /\ ~Known(Src) /\ ~HasKey(backend.name_mappings, network_name)) =>
        /\ \A e \in LookupEntries \cup {ReqName} : ~Lookup(backend, Src, network_name, e).some
        /\ ~CtrIsInternal(backend, Src)
        /\ (~no_proxy /\ ~EndsWithSearchDomain(ReqName)) => Forwarded

(***************************************************************************)
(* Reverse lookup                                                          *)
(***************************************************************************)
ReverseCalled == call.op = "reverse_lookup"

\* the positions, in the requester's membership list, of the networks whose
\* reverse table has the address
ReverseHits(requester, lookup_ip) ==
    {i \in 1..Len(backend.ip_mappings[requester]) :
        LET net == backend.ip_mappings[requester][i]
        IN  HasKey(backend.reverse_mappings, net) /\ HasKey(backend.reverse_mappings[net], lookup_ip)}

SetMin(S) == CHOOSE x \in S : \A y \in S : x <= y

\* C16: Reverse lookup returns the names stored for the target in the first
\* network, in the requester's membership order, whose reverse table has the
\* target; it returns absence for an unknown requester or when no network of
\* the requester has the target.
C16_ReverseFirstNetwork ==
    ReverseCalled =>
        IF ~Known(call.requester) THEN call.result = None
        ELSE LET hits == ReverseHits(call.requester, call.lookup_ip)
                 nets == backend.ip_mappings[call.requester]
             IN  IF hits = {} THEN call.result = None
                 ELSE call.result = Some(backend.reverse_mappings[nets[SetMin(hits)]][call.lookup_ip])

\* two networks of the requester store different names for the target
C16_Witness ==
    /\ ReverseCalled
    /\ Known(call.requester)
    /\ call.result.some
    /\ LET nets == backend.ip_mappings[call.requester]
       IN  \E i, j \in ReverseHits(call.requester, call.lookup_ip) :
              backend.reverse_mappings[nets[i]][call.lookup_ip]
                  # backend.reverse_mappings[nets[j]][call.lookup_ip]

\* the files of the directory that parse_configs loads
LoadedFiles ==
    {config[i] : i \in {j \in 1..Len(config) :
                           config[j].file_name # AARDVARK_PID_FILE /\ config[j].cfg.ok}}

FileNet(f) == StripSuffix(f.file_name, INTERNAL_SUFFIX)

FileInternal(f) == EndsWith(f.file_name, INTERNAL_SUFFIX)

EntryIps(e) == OptSeq(e.v4) \o OptSeq(e.v6)

\* the container lines of a loaded file
FileEntries(f) == Range(f.cfg.container_entry)

\* the places of the directory where the address is declared
Declarations(ip) ==
    UNION { UNION { {<<i, k, n>> : n \in {m \in 1..Len(EntryIps(config[i].cfg.container_entry[k])) :
                                             EntryIps(config[i].cfg.container_entry[k])[m] = ip}} :
                    k \in 1..Len(config[i].cfg.container_entry) } :
            i \in {j \in 1..Len(config) : config[j] \in LoadedFiles} }

Member(requester, net) == Known(requester) /\ SeqContains(backend.ip_mappings[requester], net)

\* C17 as stated: for every container line and every address of it, Reverse
\* lookup of the address from any member of the line's network returns a list
\* that starts with the first name of the line.
C17_AsStated ==
    ReverseCalled =>
        \A f \in LoadedFiles : \A e \in FileEntries(f) :
            (call.lookup_ip \in Range(EntryIps(e)) /\ Member(call.requester, FileNet(f))) =>
                call.result.some /\ call.result.v[1] = e.aliases[1]

\* C17 amended: the same, for an address that is declared once in the directory.
C17_ReverseRoundTrip ==
    ReverseCalled =>
        \A f \in LoadedFiles : \A e \in FileEntries(f) :
            ( /\ call.lookup_ip \in Range(EntryIps(e))
              /\ Cardinality(Declarations(call.lookup_ip)) = 1
              /\ Member(call.requester, FileNet(f)) ) =>
                call.result.some /\ call.result.v[1] = e.aliases[1]

\* the address of a line with two names was looked up by another container of
\* the network
C17_Witness ==
    /\ ReverseCalled
    /\ call.requester # call.lookup_ip
    /\ Cardinality(Declarations(call.lookup_ip)) = 1
    /\ \E f \in LoadedFiles : \E e \in FileEntries(f) :
          /\ call.lookup_ip \in Range(EntryIps(e))
          /\ Member(call.requester, FileNet(f))
          /\ Len(e.aliases) > 1
          /\ call.result = Some(e.aliases)

(***************************************************************************)
(* Is-internal and the network-scoped resolvers                            *)
(***************************************************************************)
\* C18: Is-internal is true iff the requester is in ip_mappings and every
\* network of its list that has an entry in network_is_internal is internal.
C18_IsInternal ==
    (call.op = "ctr_is_internal") =>
        (call.result <=>
            /\ Known(call.requester)
            /\ ~\E net \in Range(backend.ip_mappings[call.requester]) :
                   HasKey(backend.network_is_internal, net) /\ ~backend.network_is_internal[net])

\* a requester of internal networks only
C18_Witness ==
    /\ call.op = "ctr_is_internal"
    /\ Known(call.requester)
    /\ call.result

ResolversCalled == call.op = "get_network_scoped_resolvers"

\* the resolver lists of the requester's networks, one after the other
ScopedByNetwork(requester) ==
    Concat([i \in 1..Len(backend.ip_mappings[requester]) |->
               GetOrEmpty(backend.network_dns_server, backend.ip_mappings[requester][i])])

\* absent for an unknown requester, else the concatenation in membership order
C19_Concatenation ==
    ResolversCalled =>
        call.result = IF Known(call.requester) THEN Some(ScopedByNetwork(call.requester)) ELSE None

\* C19 as stated: the result is absent for an unknown requester and else the
\* concatenation, in membership order, of the resolver lists of the
\* requester's networks; every container of a network whose file declares
\* resolvers gets exactly the resolver list of that network.
C19_AsStated ==
    /\ C19_Concatenation
    /\ ResolversCalled =>
          \A f \in LoadedFiles : \A e \in FileEntries(f) :
              (call.requester \in Range(EntryIps(e)) /\ Len(f.cfg.network_dnsservers) > 0) =>
                  call.result = Some(f.cfg.network_dnsservers)

\* C19 amended: absent for an unknown requester and else the concatenation in
\* membership order; a container address whose membership list is the one
\* network of a file that is not internal and declares resolvers gets exactly
\* the resolver list of that file.
C19_NetworkScopedResolvers ==
    /\ C19_Concatenation
    /\ ResolversCalled =>
          \A f \in LoadedFiles : \A e \in FileEntries(f) :
              ( /\ call.requester \in Range(EntryIps(e))
                /\ Len(f.cfg.network_dnsservers) > 0
                /\ ~FileInternal(f)
                /\ Known(call.requester)
                /\ backend.ip_mappings[call.requester] = <<FileNet(f)>> ) =>
                  call.result = Some(f.cfg.network_dnsservers)

\* a container of two networks, of which the second alone declares resolvers,
\* got the resolvers of the second
C19_Witness ==
    /\ ResolversCalled
    /\ Known(call.requester)
    /\ Len(backend.ip_mappings[call.requester]) > 1
    /\ call.result.some
    /\ Len(call.result.v) > 1
    /\ ~HasKey(backend.network_dns_server, backend.ip_mappings[call.requester][1])

(***************************************************************************)
(* Container ids as names                                                  *)
(***************************************************************************)
\* C20: for every container line, Forward lookup of the container id from a
\* member of the line's network returns the addresses of the line, and the
\* names Reverse lookup returns for each address of the line contain the id.
C20_IdIsName ==
    \A f \in LoadedFiles : \A e \in FileEntries(f) :
        /\ (LookupCalled /\ call.entry = e.id /\ Member(call.requester, FileNet(f))) =>
               /\ call.result.some
               /\ Range(EntryIps(e)) \subseteq Range(call.result.v)
        /\ (ReverseCalled /\ call.lookup_ip \in Range(EntryIps(e))
               /\ Member(call.requester, FileNet(f))) =>
               /\ call.result.some
               /\ SeqContains(call.result.v, e.id)

(***************************************************************************)
(* parse_configs: internal networks and files that do not parse            *)
(***************************************************************************)
\* parse_configs returned the snapshot of the state for the directory
SnapshotReturned ==
    \E p \in ParseConfigs(config, filter_search_domain) : p.backend = backend

DeclaredIn(f) == UNION {Range(EntryIps(e)) : e \in FileEntries(f)}

IsBadFile(f) == f.file_name # AARDVARK_PID_FILE /\ ~f.cfg.ok

NotBadFile(f) == ~IsBadFile(f)

\* the directory without the files that parse_config rejects
GoodFiles == SelectSeq(config, NotBadFile)

\* C22: a file that does not parse does not make parse_configs fail; the
\* snapshot and the listen plans are those of the directory without the file,
\* and every line of every other file is in the snapshot.
C22_BadFileSkipped ==
    /\ SnapshotReturned
    /\ \E p \in ParseConfigs(GoodFiles, filter_search_domain) : p.backend = backend
    /\ ParseConfigs(config, filter_search_domain) = ParseConfigs(GoodFiles, filter_search_domain)
    /\ \A f \in LoadedFiles : \A e \in FileEntries(f) : \A a \in Range(e.aliases) :
          Range(EntryIps(e)) \subseteq Listed(backend, FileNet(f), a)

\* a rejected file is followed in the directory by a file with containers
C22_Witness ==
    /\ SnapshotReturned
    /\ \E i, j \in 1..Len(config) :
          /\ i < j
          /\ IsBadFile(config[i])
          /\ config[j] \in LoadedFiles
          /\ FileEntries(config[j]) # {}
          /\ HasKey(backend.name_mappings, FileNet(config[j]))

HasContent(f) == "content" \in DOMAIN f

NonEmptyLine(l) == Len(l) > 0

\* the text before the first space of the first non-empty line
FirstField(content) ==
    LET lines == SelectSeq(Split(content, "\n"), NonEmptyLine)
    IN  IF Len(lines) = 0 THEN None ELSE Some(Split(lines[1], " ")[1])

\* the file has no first bind address: no line at all, or a first field with
\* a piece that is not an IP address
NoFirstBind(content) ==
    \/ ~FirstField(content).some
    \/ \E piece \in Range(Split(FirstField(content).v, ",")) : ~ParseIpAddr(piece).some

NoBindFiles == {f \in Range(config) : HasContent(f) /\ NoFirstBind(f.content)}

\* C23 as stated: when a file of the directory has no first bind address,
\* parse_configs returns no snapshot.
C23_AsStated == NoBindFiles # {} => ~SnapshotReturned

\* the network of the file is in no table of the snapshot and in no listen plan
Contributes(f) ==
    \/ HasKey(backend.name_mappings, FileNet(f))
    \/ HasKey(backend.reverse_mappings, FileNet(f))
    \/ HasKey(backend.network_dns_server, FileNet(f))
    \/ HasKey(backend.network_is_internal, FileNet(f))
    \/ \E p \in ParseConfigs(config, filter_search_domain) :
          HasKey(p.listen_ip_v4, FileNet(f)) \/ HasKey(p.listen_ip_v6, FileNet(f))

\* C23 amended: a file without a first bind address is rejected by
\* parse_config; parse_configs still returns a snapshot, to which the file
\* contributes no table entry and no listen address.
C23_NoBindFileSkipped ==
    \A f \in NoBindFiles : ~f.cfg.ok /\ SnapshotReturned /\ ~Contributes(f)

\* a file whose first line names no address and that has a container line,
\* next to a file that is loaded
C23_Witness ==
    /\ SnapshotReturned
    /\ \E f \in NoBindFiles : FirstField(f.content).some /\ Len(Split(f.content, "\n")) > 2
    /\ \E g \in LoadedFiles : Contributes(g)

(***************************************************************************)
(* Properties of the supervisor                                            *)
(***************************************************************************)
\* read_config_and_spawn has just run and went through both reconciles
Reconciled == last.kind \in {"startup", "reload"} /\ last.parsed /\ last.result \in {"ok", "err"}

KeysOf(trace, ev) == {trace[i].key : i \in {j \in 1..Len(trace) : trace[j].ev = ev}}

BindFailed(trace) ==
    \E i \in 1..Len(trace) : trace[i].ev \in {"bind_udp", "bind_tcp"} /\ ~trace[i].ok

Planned(listen_ips) ==
    {<<n, listen_ips[n][i]>> : <<n, i>> \in
        UNION {{<<m, j>> : j \in 1..Len(listen_ips[m])} : m \in DOMAIN listen_ips}}

\* one family's registry after a reconcile, against the registry before and the plan
ReconciledExactly(before, after, listen_ips, trace) ==
    LET plan == Planned(listen_ips)
        kept == (DOMAIN before) \cap plan
    IN  /\ KeysOf(trace, "close") = (DOMAIN before) \ plan
        /\ KeysOf(trace, "join") = (DOMAIN before) \ plan
        /\ KeysOf(trace, "bind_udp") = plan \ (DOMAIN before)
        /\ DOMAIN after = kept \cup KeysOf(trace, "spawn")
        /\ \A k \in kept : after[k] = before[k]
        /\ \A i \in 1..Len(trace) : trace[i].key \notin kept
        /\ ~BindFailed(trace) => DOMAIN after = plan
        /\ DOMAIN before = plan => trace = << >> /\ after = before

EmptyPlanOnDisk ==
    /\ config_dir.some
    /\ \A parsed \in ParseConfigs(config_dir.v, filter_search_domain) :
          DOMAIN parsed.listen_ip_v4 = {} /\ DOMAIN parsed.listen_ip_v6 = {}

\* C25: once the child serves, a reload that fails (the directory does not
\* parse, a bind fails, the resolver file cannot be read) and a failed
\* re-read of the resolver file leave the process serving; the process ends
\* in a reload only when the directory holds no listen address
C25_ReloadNeverFatal ==
    /\ last.kind = "reload" /\ last.result = "err" => process = "serving"
    /\ last.kind = "resolv" => process = "serving"
    /\ last.kind = "reload" /\ process # "serving" =>
          process \in {"exit0", "exit1"} /\ EmptyPlanOnDisk

\* a reload in which a bind failed and the resolver file could not be read
C25_Witness ==
    /\ last.kind = "reload" /\ last.result = "err"
    /\ last.bind_errors > 0 /\ last.read = "failed"
    /\ process = "serving"

FailedOnParse == last.kind = "reload" /\ ~last.parsed

FailedOnBind == last.kind = "reload" /\ last.parsed /\ last.bind_errors > 0

\* the claim as it is worded: after a reload that failed on the parse or on a
\* bind the snapshot is the previous one and every listener that was
\* registered is registered still, with the task it had
C26_AsStated ==
    FailedOnParse \/ FailedOnBind =>
        /\ DNSBACKEND = last.before_backend
        /\ \A k \in DOMAIN last.before_v4 : k \in DOMAIN handles_v4 /\ handles_v4[k] = last.before_v4[k]
        /\ \A k \in DOMAIN last.before_v6 : k \in DOMAIN handles_v6 /\ handles_v6[k] = last.before_v6[k]

KeptAndStopped(before, after, listen_ips) ==
    /\ \A k \in (DOMAIN before) \cap Planned(listen_ips) : k \in DOMAIN after /\ after[k] = before[k]
    /\ \A k \in (DOMAIN before) \ Planned(listen_ips) : k \notin DOMAIN after

\* C26: a reload that fails on the parse changes nothing: snapshot,
\* registries and host resolver list are the previous ones.  A reload in
\* which a bind fails has published the snapshot of the directory on disk,
\* has stopped the listeners the new plan does not name and has kept the
\* listeners that are both registered and planned
C26_FailedReload ==
    /\ FailedOnParse =>
          /\ DNSBACKEND = last.before_backend
          /\ handles_v4 = last.before_v4 /\ handles_v6 = last.before_v6
          /\ nameservers = last.before_ns
    /\ FailedOnBind =>
          /\ config_dir.some
          /\ DNSBACKEND \in {Some(parsed.backend) :
                               parsed \in ParseConfigs(config_dir.v, filter_search_domain)}
          /\ KeptAndStopped(last.before_v4, handles_v4, last.listen_ip_v4)
          /\ KeptAndStopped(last.before_v6, handles_v6, last.listen_ip_v6)

\* a reload in which a bind failed, after which the snapshot is a new one and
\* a listener that was registered is gone
C26_Witness ==
    /\ FailedOnBind
    /\ DNSBACKEND # last.before_backend
    /\ \E k \in DOMAIN last.before_v4 : k \notin DOMAIN handles_v4

\* read_config_and_spawn has just parsed a directory without listen address
ParsedEmptyPlan == last.kind \in {"startup", "reload"} /\ last.parsed /\ EmptyPlanOnDisk

AllStopped(before, after, trace) ==
    /\ after = EmptyMap
    /\ KeysOf(trace, "close") = DOMAIN before
    /\ KeysOf(trace, "join") = DOMAIN before
    /\ \A i, j \in 1..Len(trace) : trace[i].ev = "close" /\ trace[j].ev = "join" => i < j

\* C27: when the parsed directory has no listen address of either family and
\* the PID file is removed, every listener of both registries has had its
\* channel closed and its task awaited, both registries are empty and the
\* process has ended with status 0; when the PID file cannot be removed the
\* process has ended with status 1, and no other way leads to status 1
C27_EmptyPlanExit ==
    /\ ParsedEmptyPlan /\ last.pid_removed = "ok" =>
          /\ process = "exit0" /\ ~pid_file
          /\ AllStopped(last.before_v4, handles_v4, last.trace_v4)
          /\ AllStopped(last.before_v6, handles_v6, last.trace_v6)
    /\ ParsedEmptyPlan => last.pid_removed \in {"ok", "failed"}
    /\ ParsedEmptyPlan /\ last.pid_removed = "failed" => process = "exit1"
    /\ process = "exit1" => ParsedEmptyPlan /\ last.pid_removed = "failed" /\ ~pid_file
    /\ process = "exit0" => ParsedEmptyPlan /\ last.pid_removed = "ok"

\* a reload to an empty directory with listeners of both families registered
C27_Witness ==
    /\ ParsedEmptyPlan /\ last.kind = "reload" /\ process = "exit0"
    /\ DOMAIN last.before_v4 # {} /\ DOMAIN last.before_v6 # {}

\* C28: whenever something has been written to the pipe the parent waits on,
\* the initial configuration has been parsed and published and the startup has
\* not failed; a child whose startup fails has written nothing
C28_ReadyAfterStartup ==
    /\ ready_pipe # << >> => DNSBACKEND.some /\ process \notin {"created", "failed"}
    /\ process = "failed" => ready_pipe = << >>

\* the k-th smallest element of a set of numbers
NthOf(S, k) == CHOOSE x \in S : Cardinality({y \in S : y < x}) = k - 1

\* the lines of a text, by the positions of its line feeds
LinesOf(text) ==
    LET feeds == {i \in 1..Len(text) : text[i] = "\n"}
    IN  [k \in 1..(Cardinality(feeds) + 1) |->
            SubSeq(text,
                   IF k = 1 THEN 1 ELSE NthOf(feeds, k - 1) + 1,
                   IF k <= Cardinality(feeds) THEN NthOf(feeds, k) - 1 ELSE Len(text))]

\* the fields of a line of the resolver file, its comment left out, by the
\* positions at which a field starts and ends
Fields(line) ==
    LET marks == {i \in 1..Len(line) : line[i] \in {"#", ";"}}
        text == IF marks = {} THEN line ELSE SubSeq(line, 1, NthOf(marks, 1) - 1)
        Blank(i) == i < 1 \/ i > Len(text) \/ text[i] \in {" ", "\t", "\r"}
        starts == {i \in 1..Len(text) : ~Blank(i) /\ Blank(i - 1)}
        ends == {i \in 1..Len(text) : ~Blank(i) /\ Blank(i + 1)}
    IN  [k \in 1..Cardinality(starts) |-> SubSeq(text, NthOf(starts, k), NthOf(ends, k))]

\* the entries of the file that name a server, in file order, at most `most` of them
NameserverEntries(file, most) ==
    LET lines == LinesOf(file.content)
        named == {i \in 1..Len(lines) :
                    Len(Fields(lines[i])) >= 2 /\ Fields(lines[i])[1] = Chars("nameserver")}
        count == IF Cardinality(named) < most THEN Cardinality(named) ELSE most
    IN  [k \in 1..count |-> ParseNameserver(Fields(lines[NthOf(named, k)])[2]).addr]

\* C29: the shared host upstream list never has more than three entries, each
\* of them on port 53, and after a read of the resolver file that succeeded
\* it is the first three nameserver entries of the file, in file order
C29_HostUpstreams ==
    /\ Len(nameservers) <= 3
    /\ \A i \in 1..Len(nameservers) : nameservers[i].port = 53
    /\ last.read = "ok" => nameservers = NameserverEntries(last.read_file.v, 3)

\* a file with more than three nameserver entries has just been read
C29_Witness ==
    /\ last.read = "ok"
    /\ Len(NameserverEntries(last.read_file.v, 4)) = 4
    /\ Len(nameservers) = 3

\* the identities that hold the address ip just before step j of the trace:
\* listeners registered before whose task runs and has not been awaited yet,
\* and listeners spawned earlier in the trace
Holders(before, trace, j, ip) ==
    {k \in DOMAIN before :
        /\ k[2] = ip /\ before[k].handle = "running"
        /\ ~\E i \in 1..(j - 1) : trace[i].ev = "join" /\ trace[i].key = k}
    \cup {trace[i].key : i \in {h \in 1..(j - 1) : trace[h].ev = "spawn" /\ trace[h].key[2] = ip}}

StopsBeforeBinds(before, listen_ips, trace) ==
    /\ \A k \in (DOMAIN before) \ Planned(listen_ips) :
          \E i, j \in 1..Len(trace) :
             /\ i < j
             /\ trace[i].ev = "close" /\ trace[i].key = k
             /\ trace[j].ev = "join" /\ trace[j].key = k
    /\ \A i, j \in 1..Len(trace) :
          trace[i].ev \in {"close", "join"} /\ trace[j].ev \in {"bind_udp", "bind_tcp", "spawn"}
             => i < j
    /\ \A j \in 1..Len(trace) :
          trace[j].ev \in {"bind_udp", "bind_tcp"} /\ trace[j].ok
             => Holders(before, trace, j, trace[j].key[2]) = {}

\* C30: in the reconcile of a family every listener that is to be stopped has
\* had its shutdown channel closed and its task awaited before the first bind
\* of a new identity, and no address is bound while a listener holds it
C30_StopBeforeBind ==
    Reconciled =>
        /\ StopsBeforeBinds(last.before_v4, last.listen_ip_v4, last.trace_v4)
        /\ StopsBeforeBinds(last.before_v6, last.listen_ip_v6, last.trace_v6)

\* a listen address moved from one network to another: its old listener was
\* awaited and its new listener bound in the same reconcile
C30_Witness ==
    /\ Reconciled
    /\ \E i, j \in 1..Len(last.trace_v4) :
          /\ i < j
          /\ last.trace_v4[i].ev = "join" /\ last.trace_v4[j].ev = "spawn"
          /\ last.trace_v4[i].key[2] = last.trace_v4[j].key[2]
          /\ last.trace_v4[i].key[1] # last.trace_v4[j].key[1]
          /\ last.before_v4[last.trace_v4[i].key].handle = "running"

BindEvents(trace, ok) ==
    {i \in 1..Len(trace) : trace[i].ev \in {"bind_udp", "bind_tcp"} /\ trace[i].ok = ok}

\* one family's reconcile with respect to the binds that failed in it
BindFailuresSkipped(before, after, listen_ips, trace, bound, failed_before) ==
    LET to_start == Planned(listen_ips) \ (DOMAIN before)
        failed == {trace[i].key : i \in BindEvents(trace, FALSE)}
    IN  /\ \A k \in to_start : k \in KeysOf(trace, "bind_udp")
        /\ \A k \in to_start \ failed :
              /\ k \in KeysOf(trace, "bind_tcp") /\ k \in KeysOf(trace, "spawn")
              /\ k \in DOMAIN after /\ after[k] = Listener
              /\ {<<k, "udp">>, <<k, "tcp">>} \subseteq bound
        /\ \A k \in failed :
              /\ k \notin DOMAIN after
              /\ k \notin KeysOf(trace, "spawn")
              /\ <<k, "udp">> \notin bound /\ <<k, "tcp">> \notin bound
        /\ \A k \in failed_before \cap Planned(listen_ips) : k \in KeysOf(trace, "bind_udp")

\* C33: in a reconcile a bind that fails stops nothing: every other identity
\* to start is bound, spawned and registered, the identity of the failed bind
\* is not registered and holds no socket, the errors returned are as many as
\* the binds that failed, and an identity whose bind failed in the run before
\* is tried again when the plan still names it
C33_BindFailureSkipped ==
    Reconciled =>
        /\ BindFailuresSkipped(last.before_v4, handles_v4, last.listen_ip_v4, last.trace_v4,
                               last.bound_v4, last.failed_v4)
        /\ BindFailuresSkipped(last.before_v6, handles_v6, last.listen_ip_v6, last.trace_v6,
                               last.bound_v6, last.failed_v6)
        /\ last.bind_errors = Cardinality(BindEvents(last.trace_v4, FALSE))
                              + Cardinality(BindEvents(last.trace_v6, FALSE))
        /\ last.bind_errors > 0 => last.result = "err"

\* a reconcile whose first bind failed and whose later bind succeeded, and
\* that retried with success an identity whose bind had failed the run before
C33_Witness ==
    /\ Reconciled
    /\ \E i, j \in 1..Len(last.trace_v4) :
          /\ i < j
          /\ last.trace_v4[i].ev \in {"bind_udp", "bind_tcp"} /\ ~last.trace_v4[i].ok
          /\ last.trace_v4[j].ev = "spawn"
    /\ \E k \in last.failed_v4 : k \in KeysOf(last.trace_v4, "spawn")

\* C34: a read of the resolver file that fails, on a change of the file or
\* during a reload, leaves the shared host upstream list as it was, and a
\* read that succeeds makes it the list read
C34_FailedReadKeepsList ==
    /\ last.read = "failed" => nameservers = last.before_ns
    /\ last.read = "ok" => nameservers = last.read_file.v.parsed.v

Times(trace, ev, key) == Cardinality({i \in 1..Len(trace) : trace[i].ev = ev /\ trace[i].key = key})

\* one family's reconcile creates listeners for unregistered identities only
CreatedOnlyWhenAbsent(before, after, listen_ips, trace) ==
    /\ \A i \in 1..Len(trace) :
          trace[i].ev \in {"bind_udp", "bind_tcp", "spawn"} =>
             /\ trace[i].key \notin DOMAIN before
             /\ Times(trace, trace[i].ev, trace[i].key) = 1
    /\ \A k \in (DOMAIN before) \cap Planned(listen_ips) :
          before[k].handle = "finished" =>
             /\ after[k] = before[k]
             /\ \A i \in 1..Len(trace) : trace[i].key # k

\* C40: a reconcile binds and spawns only identities that are not in the
\* registry, each of them once, so that no identity has two listeners; an
\* identity that is registered and planned and whose task has ended on its
\* own stays as it is: it is neither stopped nor started again
C40_CreatedOnlyWhenAbsent ==
    Reconciled =>
        /\ CreatedOnlyWhenAbsent(last.before_v4, handles_v4, last.listen_ip_v4, last.trace_v4)
        /\ CreatedOnlyWhenAbsent(last.before_v6, handles_v6, last.listen_ip_v6, last.trace_v6)

\* a reload that keeps in the plan an identity whose task has ended, and that
\* starts another identity
C40_Witness ==
    /\ Reconciled /\ last.kind = "reload"
    /\ \E k \in (DOMAIN last.before_v4) \cap Planned(last.listen_ip_v4) :
          last.before_v4[k].handle = "finished" /\ handles_v4[k].handle = "finished"
    /\ KeysOf(last.trace_v4, "spawn") # {}

(***************************************************************************)
(* Invariants of the snapshot that parse_configs builds                    *)
(***************************************************************************)
\* the addresses that are a key of a reverse table, a key of ctr_dns_server
\* or listed under a name
MentionedIps ==
    UNION {DOMAIN backend.reverse_mappings[n] : n \in DOMAIN backend.reverse_mappings}
    \cup DOMAIN backend.ctr_dns_server
    \cup UNION { UNION {Range(backend.name_mappings[n][a]) : a \in DOMAIN backend.name_mappings[n]} :
                 n \in DOMAIN backend.name_mappings }

\* C35: every address that is a key of a reverse table or of ctr_dns_server,
\* or that is listed under a name, is a key of ip_mappings, and the networks
\* of an address contain every network whose file declares the address
C35_IpMappingsComplete ==
    /\ SnapshotReturned
    /\ \A ip \in MentionedIps : Known(ip)
    /\ \A f \in LoadedFiles : \A ip \in DeclaredIn(f) :
          Known(ip) /\ SeqContains(backend.ip_mappings[ip], FileNet(f))

\* a snapshot in which an address is declared in two networks, is a key of
\* the reverse table of both and of ctr_dns_server, and is listed under a name
C35_Witness ==
    /\ SnapshotReturned
    /\ \E f, g \in LoadedFiles :
          /\ FileNet(f) # FileNet(g)
          /\ \E ip \in DeclaredIn(f) \cap DeclaredIn(g) :
                /\ ip \in DOMAIN backend.reverse_mappings[FileNet(f)]
                /\ ip \in DOMAIN backend.reverse_mappings[FileNet(g)]
                /\ ip \in DOMAIN backend.ctr_dns_server
                /\ \E a \in DOMAIN backend.name_mappings[FileNet(f)] :
                      ip \in Range(backend.name_mappings[FileNet(f)][a])

NoRepeat(seq) == \A i, j \in 1..Len(seq) : seq[i] = seq[j] => i = j

\* the places, as network and position, at which the networks of the
\* requester list the address under the name
ListedPlaces(requester, name, ip) ==
    UNION { {<<n, i>> : i \in {j \in 1..Len(ListedSeq(n, name)) : ListedSeq(n, name)[j] = ip}} :
            n \in Range(backend.ip_mappings[requester]) }

\* C36: no network name occurs twice in the network list of an address, and
\* Forward lookup returns an address no more often than the networks of the
\* requester list it under the name
C36_MembershipNoDuplicates ==
    /\ \A ip \in DOMAIN backend.ip_mappings : NoRepeat(backend.ip_mappings[ip])
    /\ (LookupCalled /\ Known(call.requester) /\ call.result.some) =>
          \A ip \in Range(call.result.v) :
             Cardinality({i \in 1..Len(call.result.v) : call.result.v[i] = ip})
                <= Cardinality(ListedPlaces(call.requester,
                                            NormalizeName(backend, call.entry), ip))

\* the places, as file, line and position in the line's addresses (IPv4
\* first), at which the network lists an address under the name
NamePlaces(net, name) ==
    UNION { UNION { {<<i, k, m>> : m \in 1..Len(EntryIps(config[i].cfg.container_entry[k]))} :
                    k \in {l \in 1..Len(config[i].cfg.container_entry) :
                              SeqContains(config[i].cfg.container_entry[l].aliases, name)} } :
            i \in {j \in 1..Len(config) : config[j] \in LoadedFiles /\ FileNet(config[j]) = net} }

PlaceBefore(p, q) ==
    \/ p[1] < q[1]
    \/ p[1] = q[1] /\ p[2] < q[2]
    \/ p[1] = q[1] /\ p[2] = q[2] /\ p[3] < q[3]

\* the sequence lists exactly the addresses of the places, in their order
InPlaceOrder(seq, places) ==
    /\ Len(seq) = Cardinality(places)
    /\ \A p \in places :
          seq[1 + Cardinality({q \in places : PlaceBefore(q, p)})]
             = EntryIps(config[p[1]].cfg.container_entry[p[2]])[p[3]]

\* the positions of the first line of the file that hold an address of the family
BindPlaces(f, v4) ==
    {i \in 1..Len(f.cfg.network_bind_ip) : IsV4(f.cfg.network_bind_ip[i]) = v4}

\* the plan lists exactly the addresses of that family, in first-line order
InBindOrder(plan, net, f, v4) ==
    IF BindPlaces(f, v4) = {} THEN TRUE
    ELSE /\ HasKey(plan, net)
         /\ Len(plan[net]) = Cardinality(BindPlaces(f, v4))
         /\ \A i \in BindPlaces(f, v4) :
               plan[net][1 + Cardinality({j \in BindPlaces(f, v4) : j < i})]
                  = f.cfg.network_bind_ip[i]

\* the only loaded file of its network
OnlyFileOfNet(f) == \A g \in LoadedFiles : FileNet(g) = FileNet(f) => g = f

\* C37: the forward table entry of a name declared in a network is the
\* concatenation, in file line order, of the addresses of the lines of that
\* network declaring the name, IPv4 before IPv6 within a line; the listen
\* addresses of the first line are split by family into the two plans under
\* the network name, in first-line order
C37_ForwardTableOrder ==
    /\ \A f \in LoadedFiles : \A e \in FileEntries(f) : \A name \in Range(e.aliases) :
          InPlaceOrder(ListedSeq(FileNet(f), name), NamePlaces(FileNet(f), name))
    /\ \A p \in ParseConfigs(config, filter_search_domain) :
          \A f \in LoadedFiles : OnlyFileOfNet(f) =>
             /\ InBindOrder(p.listen_ip_v4, FileNet(f), f, TRUE)
             /\ InBindOrder(p.listen_ip_v6, FileNet(f), f, FALSE)

\* a name declared by two lines of one network, the first with two IPv4
\* addresses and an IPv6 address, in a network listening on both families
C37_Witness ==
    /\ SnapshotReturned
    /\ \E f \in LoadedFiles :
          /\ Cardinality(BindPlaces(f, TRUE)) > 1
          /\ BindPlaces(f, FALSE) # {}
          /\ \E name \in DOMAIN backend.name_mappings[FileNet(f)] :
                /\ \E p, q \in NamePlaces(FileNet(f), name) : p[2] # q[2]
                /\ \E p, q \in NamePlaces(FileNet(f), name) :
                      /\ p[2] = q[2] /\ p[3] < q[3]
                      /\ IsV4(EntryIps(config[p[1]].cfg.container_entry[p[2]])[p[3]])
                      /\ ~IsV4(EntryIps(config[q[1]].cfg.container_entry[q[2]])[q[3]])
                /\ Len(backend.name_mappings[FileNet(f)][name]) = 4

\* C38: a parsed query gets at most one reply: one answered from the tables
\* (A, AAAA or PTR) is neither answered NXDOMAIN as well nor handed to a
\* forwarder, and a forwarder relays at most one response
C38_AtMostOneReply ==
    query.some =>
        /\ Len(sent) <= 1
        /\ (SentAt("local") # {} \/ SentAt("ptr") # {}) =>
              /\ SentAt("nx") = {}
              /\ ~Forwarded
              /\ contacted = << >>
        /\ Cardinality(SentAt("forward")) <= 1

\* the addresses the listener resolved the name of the query to
Resolved == ResolvedIpList(backend, Src, network_name, filter_search_domain, ReqName)

\* the name resolves, and only to addresses of the family not asked for
OtherFamilyOnly ==
    /\ Req.query.query_type \in {"A", "AAAA"}
    /\ Len(Resolved) > 0
    /\ \A i \in 1..Len(Resolved) : IsV4(Resolved[i]) = (Req.query.query_type = "AAAA")

\* C39: an A or AAAA query whose name resolves only to addresses of the other
\* family gets one reply, NOERROR and without answer records; it is not
\* handed to a forwarder and not answered NXDOMAIN
C39_OtherFamilyEmptyAnswer ==
    (Handled /\ Req.encodable /\ OtherFamilyOnly) =>
        /\ Len(sent) = 1
        /\ sent[1].site = "local"
        /\ sent[1].msg.response_code = "NoError"
        /\ sent[1].msg.answers = << >>
        /\ ~Forwarded
        /\ contacted = << >>

\* an AAAA query for a name with IPv4 addresses only, answered while
\* forwarding is allowed and host resolvers are configured
C39_Witness ==
    /\ Handled
    /\ Req.encodable
    /\ OtherFamilyOnly
    /\ Req.query.query_type = "AAAA"
    /\ ~no_proxy
    /\ resolv_conf # << >>
    /\ SentAt("local") = {1}

\* the reads made for the query in progress all observed one snapshot
OneSnapshotPerQuery ==
    call.op = "query" =>
        \A i, j \in 1..Len(call.reads) : call.reads[i].snapshot = call.reads[j].snapshot

\* C31: the backend reads made for one query all observe the same snapshot,
\* also when a reload publishes meanwhile; a query that arrives at a surviving
\* listener after a reload has published is answered from the snapshot then
\* published, or from one published since
C31_SnapshotPerQuery ==
    /\ OneSnapshotPerQuery
    /\ call.op = "query" =>
          \A i \in 1..Len(call.reads) : call.reads[i].snapshot \in call.published

StopThreadsRunning == last.kind = "stop_threads"

\* C32: a listener whose shutdown sender has been dropped ends, and a call of
\* stop_threads returns, whatever the forwarders spawned by the listeners do
C32_StopThreadsReturns ==
    /\ \A k \in StopKeys : Closed(k) ~> (phase[k] = "ended")
    /\ StopThreadsRunning ~> (StopThreadsRunning /\ last.returned)

\* stop_threads has returned after awaiting both listeners, one of which was
\* stopped while a forwarder it had spawned was still running
C32_Witness ==
    /\ StopThreadsRunning
    /\ last.returned
    /\ last.joined = 2
    /\ \A k \in StopKeys : phase[k] = "ended"
    /\ task.active

====
